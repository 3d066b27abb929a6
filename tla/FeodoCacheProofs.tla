--------------------------- MODULE FeodoCacheProofs -------------------------
(***************************************************************************)
(* Theorems about FeodoCache, for any set of lookups and addresses and any *)
(* TTL.  What keeps the downloads apart is that the lock has one holder    *)
(* and that whoever gets it looks at the timestamp again; the order of the *)
(* waiters plays a part only in LockCorrect.                               *)
(***************************************************************************)
EXTENDS FeodoCache, SequenceTheorems, TLAPS

(* Only the holder downloads, and it found the list stale: the timestamp is
   never newer than the end of the last download. *)
Inv ==
  /\ age \in 0 .. TTL
  /\ quiet \in 0 .. TTL
  /\ age <= quiet
  /\ DOMAIN look = Lookups
  /\ \A l \in Lookups : look[l].pc = "downloading" => holder = l
  /\ holder # Nobody => age = TTL

(* At the start nobody has downloaded anything (reputation_service.py,     *)
(* module level).                                                          *)
LEMMA InitInv == Init => Inv
BY FeodoAssumption DEF Init, Inv, Idle

(* Every step of the lookups keeps the invariant.                          *)
LEMMA NextInv == Inv /\ [Next]_vars => Inv'
<1>. SUFFICES ASSUME Inv, [Next]_vars PROVE Inv'
  OBVIOUS
<1>. USE FeodoAssumption
<1>. USE DEF Inv, Becomes, Idle, Waiting, Downloading, Answered, Fresh
<1>1. CASE UNCHANGED vars
  BY <1>1 DEF vars, code
<1>2. ASSUME NEW l \in Lookups, NEW ip \in Addresses, Begin(l, ip)
      PROVE  Inv'
  BY <1>2 DEF Begin
<1>3. ASSUME NEW l \in Lookups, Acquire(l)
      PROVE  Inv'
  BY <1>3 DEF Acquire
<1>4. ASSUME NEW l \in Lookups, NEW found, Ends(l, found), age' = 0
      PROVE  Inv'
  BY <1>4 DEF Ends
<1>5. ASSUME NEW l \in Lookups, Cancel(l)
      PROVE  Inv'
  BY <1>5 DEF Cancel
<1>6. ASSUME NEW l \in Lookups, Deliver(l)
      PROVE  Inv'
  BY <1>6 DEF Deliver
<1>7. CASE Tick
  BY <1>7 DEF Tick
<1>. QED
  BY <1>1, <1>2, <1>3, <1>4, <1>5, <1>6, <1>7 DEF Next, DownloadSucceeds, DownloadFails

-----------------------------------------------------------------------------
(* The line of lookups that wait for the lock.                             *)

(* One more at the end of a line that it is not in.                        *)
LEMMA JoinLine ==
  ASSUME NEW S, NEW line \in Seq(S), IsInjective(line), NEW l \in S, l \notin ToSet(line)
  PROVE  /\ Append(line, l) \in Seq(S)
         /\ ToSet(Append(line, l)) = ToSet(line) \cup {l}
         /\ IsInjective(Append(line, l))
<1>. DEFINE longer == Append(line, l)
<1>1. /\ longer \in Seq(S) /\ DOMAIN longer = 1 .. Len(line) + 1 /\ Len(line) \in Nat
      /\ \A i \in 1 .. Len(line) : longer[i] = line[i]
      /\ longer[Len(line) + 1] = l
  OBVIOUS
<1>2. DOMAIN line = 1 .. Len(line) /\ DOMAIN longer = DOMAIN line \cup {Len(line) + 1}
  BY <1>1
<1>3. ToSet(longer) = ToSet(line) \cup {l}
  BY <1>1, <1>2 DEF ToSet
<1>4. IsInjective(longer)
  BY <1>1, <1>2 DEF ToSet, IsInjective
<1>. QED
  BY <1>1, <1>3, <1>4

(* The first one leaves.                                                   *)
LEMMA ServeLine ==
  ASSUME NEW S, NEW line \in Seq(S), IsInjective(line), line # <<>>
  PROVE  /\ Tail(line) \in Seq(S)
         /\ Head(line) \in ToSet(line)
         /\ ToSet(Tail(line)) = ToSet(line) \ {Head(line)}
         /\ IsInjective(Tail(line))
<1>. DEFINE rest == Tail(line)
<1>1. /\ rest \in Seq(S) /\ Len(line) \in Nat \ {0}
      /\ DOMAIN line = 1 .. Len(line) /\ DOMAIN rest = 1 .. Len(line) - 1
      /\ Head(line) = line[1] /\ \A i \in DOMAIN rest : rest[i] = line[i + 1]
  OBVIOUS
<1>2. Head(line) \in ToSet(line)
  BY <1>1 DEF ToSet
<1>3. ToSet(rest) = ToSet(line) \ {Head(line)}
  <2>1. ASSUME NEW x \in ToSet(rest) PROVE x \in ToSet(line) \ {Head(line)}
    <3>1. PICK i \in DOMAIN rest : x = rest[i]
      BY DEF ToSet
    <3>2. x = line[i + 1] /\ i + 1 \in DOMAIN line /\ i + 1 # 1 /\ 1 \in DOMAIN line
      BY <1>1, <3>1
    <3>. QED
      BY <1>1, <3>2 DEF ToSet, IsInjective
  <2>2. ASSUME NEW x \in ToSet(line) \ {Head(line)} PROVE x \in ToSet(rest)
    <3>1. PICK i \in DOMAIN line : x = line[i]
      BY DEF ToSet
    <3>2. i - 1 \in DOMAIN rest /\ rest[i - 1] = x
      BY <1>1, <3>1
    <3>. QED
      BY <3>2 DEF ToSet
  <2>. QED
    BY <2>1, <2>2
<1>4. IsInjective(rest)
  <2>1. ASSUME NEW i \in DOMAIN rest, NEW j \in DOMAIN rest, rest[i] = rest[j]
        PROVE  i = j
    <3>1. line[i + 1] = line[j + 1] /\ i + 1 \in DOMAIN line /\ j + 1 \in DOMAIN line
      BY <1>1, <2>1
    <3>2. i + 1 = j + 1
      BY <3>1 DEF IsInjective
    <3>. QED
      BY <1>1, <3>2
  <2>. QED
    BY <2>1 DEF IsInjective
<1>. QED
  BY <1>1, <1>2, <1>3, <1>4

(* One leaves from wherever it stands, if it stands there at all.          *)
LEMMA LeaveLine ==
  ASSUME NEW S, NEW line \in Seq(S), IsInjective(line), NEW l
  PROVE  /\ RemoveFirst(line, l) \in Seq(S)
         /\ ToSet(RemoveFirst(line, l)) = ToSet(line) \ {l}
         /\ IsInjective(RemoveFirst(line, l))
<1>0. Len(line) \in Nat /\ DOMAIN line = 1 .. Len(line)
  OBVIOUS
<1>1. CASE l \notin ToSet(line)
  <2>1. RemoveFirst(line, l) = line
    BY <1>0, <1>1 DEF RemoveFirst, ToSet
  <2>. QED
    BY <1>1, <2>1
<1>2. CASE l \in ToSet(line)
  <2>1. PICK at \in 1 .. Len(line) : line[at] = l
    BY <1>0, <1>2 DEF ToSet
  <2>2. {i \in 1 .. Len(line) : line[i] = l} = {at}
    BY <1>0, <2>1 DEF IsInjective
  <2>3. Min({i \in 1 .. Len(line) : line[i] = l}) = at
    BY <2>2 DEF Min
  <2>4. RemoveFirst(line, l) = RemoveAt(line, at)
    BY <2>1, <2>2, <2>3 DEF RemoveFirst, SelectInSeq
  <2>. DEFINE front == SubSeq(line, 1, at - 1)
              back  == SubSeq(line, at + 1, Len(line))
              rest  == front \o back
  <2>. HIDE DEF front, back, rest
  <2>5. /\ rest \in Seq(S) /\ DOMAIN rest = 1 .. Len(line) - 1
        /\ \A i \in 1 .. Len(line) - 1 : rest[i] = line[IF i < at THEN i ELSE i + 1]
    <3>1. /\ front \in Seq(S) /\ Len(front) = at - 1
          /\ \A i \in 1 .. at - 1 : front[i] = line[i]
      <4>1. \A i \in 1 .. at - 1 : line[i] \in S
        BY <1>0, <2>1, ElementOfSeq
      <4>. QED
        BY <1>0, <2>1, <4>1, SubSeqProperties DEF front
    <3>2. /\ back \in Seq(S) /\ Len(back) = Len(line) - at
          /\ \A i \in 1 .. Len(line) - at : back[i] = line[at + i]
      <4>1. \A i \in at + 1 .. Len(line) : line[i] \in S
        BY <1>0, <2>1, ElementOfSeq
      <4>2. /\ back \in Seq(S)
            /\ Len(back) = IF at + 1 <= Len(line) THEN Len(line) - (at + 1) + 1 ELSE 0
            /\ \A i \in 1 .. Len(line) - (at + 1) + 1 : back[i] = line[at + 1 + i - 1]
        BY <1>0, <2>1, <4>1, SubSeqProperties DEF back
      <4>3. Len(back) = Len(line) - at
        <5>1. PICK n \in Nat : n = Len(line)
          BY <1>0, LenProperties
        <5>2. at \in 1 .. n /\ Len(back) = IF at + 1 <= n THEN n - (at + 1) + 1 ELSE 0
          BY <2>1, <4>2, <5>1
        <5>3. Len(back) = n - at
          BY <5>2
        <5>. QED
          BY <5>1, <5>3
      <4>4. ASSUME NEW i \in 1 .. Len(line) - at
            PROVE  back[i] = line[at + i]
        <5>1. i \in 1 .. Len(line) - (at + 1) + 1 /\ at + 1 + i - 1 = at + i
          BY <1>0, <2>1
        <5>2. back[i] = line[at + 1 + i - 1]
          BY <4>2, <5>1
        <5>. QED
          BY <5>1, <5>2
      <4>. QED
        BY <4>2, <4>3, <4>4
    <3>3. /\ rest \in Seq(S) /\ Len(rest) = Len(front) + Len(back)
          /\ \A i \in 1 .. Len(front) + Len(back) :
               rest[i] = IF i <= Len(front) THEN front[i] ELSE back[i - Len(front)]
      BY <3>1, <3>2, ConcatProperties DEF rest
    <3>4. DOMAIN rest = 1 .. Len(line) - 1
      BY <1>0, <2>1, <3>1, <3>2, <3>3, LenProperties
    <3>5. ASSUME NEW i \in 1 .. Len(line) - 1
          PROVE  rest[i] = line[IF i < at THEN i ELSE i + 1]
      <4>1. rest[i] = IF i <= at - 1 THEN front[i] ELSE back[i - (at - 1)]
        BY <1>0, <2>1, <3>1, <3>2, <3>3
      <4>2. CASE i < at
        BY <1>0, <2>1, <3>1, <4>1, <4>2
      <4>3. CASE ~(i < at)
        <5>1. i - (at - 1) \in 1 .. Len(line) - at /\ at + (i - (at - 1)) = i + 1
          BY <1>0, <2>1, <4>3
        <5>2. rest[i] = back[i - (at - 1)]
          BY <1>0, <2>1, <4>1, <4>3
        <5>3. back[i - (at - 1)] = line[at + (i - (at - 1))]
          BY <3>2, <5>1
        <5>. QED
          BY <4>3, <5>1, <5>2, <5>3
      <4>. QED
        BY <4>2, <4>3
    <3>. QED
      BY <3>3, <3>4, <3>5
  <2>6. ToSet(rest) = ToSet(line) \ {l}
    <3>1. ASSUME NEW x \in ToSet(rest) PROVE x \in ToSet(line) \ {l}
      <4>1. PICK i \in 1 .. Len(line) - 1 : x = rest[i]
        BY <2>5 DEF ToSet
      <4>2. PICK j \in 1 .. Len(line) : j # at /\ x = line[j]
        BY <1>0, <2>1, <2>5, <4>1
      <4>. QED
        BY <1>0, <2>1, <4>2 DEF ToSet, IsInjective
    <3>2. ASSUME NEW x \in ToSet(line) \ {l} PROVE x \in ToSet(rest)
      <4>1. PICK j \in 1 .. Len(line) : x = line[j]
        BY <1>0 DEF ToSet
      <4>2. PICK i \in 1 .. Len(line) - 1 : j = (IF i < at THEN i ELSE i + 1)
        <5>1. CASE j < at
          BY <1>0, <2>1, <5>1
        <5>2. CASE j > at
          <6>1. j - 1 \in 1 .. Len(line) - 1 /\ ~(j - 1 < at) /\ j = (j - 1) + 1
            BY <1>0, <2>1, <5>2
          <6>. QED
            BY <6>1
        <5>. QED
          BY <1>0, <2>1, <4>1, <5>1, <5>2
      <4>3. i \in DOMAIN rest /\ rest[i] = x
        BY <2>5, <4>1, <4>2
      <4>. QED
        BY <4>3 DEF ToSet
    <3>. QED
      BY <3>1, <3>2
  <2>7. IsInjective(rest)
    <3>1. ASSUME NEW i \in 1 .. Len(line) - 1, NEW j \in 1 .. Len(line) - 1, rest[i] = rest[j]
          PROVE  i = j
      <4>. DEFINE From(n) == IF n < at THEN n ELSE n + 1
      <4>1. From(i) \in DOMAIN line /\ From(j) \in DOMAIN line /\ line[From(i)] = line[From(j)]
        BY <1>0, <2>1, <2>5, <3>1
      <4>2. From(i) = From(j)
        BY <4>1 DEF IsInjective
      <4>. QED
        BY <1>0, <2>1, <4>2
    <3>. QED
      BY <2>5, <3>1 DEF IsInjective
  <2>. QED
    BY <2>4, <2>5, <2>6, <2>7 DEF RemoveAt, rest, front, back
<1>. QED
  BY <1>1, <1>2

-----------------------------------------------------------------------------
(* Typing, and that the lock and its line agree: what is on record of the
   lock is what the lookups themselves are about. *)
LockInv == TypeOK /\ LockAndLineAgree

(* At the start the lock is free and nobody waits for it.                  *)
LEMMA InitLockInv == Init => LockInv
<1>. SUFFICES ASSUME Init PROVE LockInv
  OBVIOUS
<1>1. TypeOK
  <2>1. waiters \in Seq(Lookups)
    BY EmptySeq DEF Init
  <2>2. look \in [Lookups -> Lookings \cup {Idle}]
    BY DEF Init
  <2>3. age \in 0 .. TTL /\ quiet \in 0 .. TTL
    BY FeodoAssumption DEF Init
  <2>4. list \in SUBSET Addresses /\ holder \in Lookups \cup {Nobody} /\ loaded \in BOOLEAN
    BY DEF Init
  <2>. QED
    BY <2>1, <2>2, <2>3, <2>4 DEF TypeOK
<1>2. LookupsAt("downloading") = {} /\ LookupsAt("waiting") = {}
  BY DEF Init, LookupsAt, Idle
<1>3. ToSet(waiters) = {} /\ IsInjective(waiters)
  BY DEF Init, ToSet, IsInjective
<1>. QED
  BY <1>1, <1>2, <1>3 DEF Init, LockInv, LockAndLineAgree

(* Where the lookups are after one of them has moved.                      *)
LEMMA OneMoves ==
  ASSUME TypeOK, NEW l \in Lookups, NEW state \in Lookings \cup {Idle}, Becomes(l, state), NEW pc
  PROVE  /\ look' \in [Lookups -> Lookings \cup {Idle}]
         /\ LookupsAt(pc)' = IF state.pc = pc THEN LookupsAt(pc) \cup {l} ELSE LookupsAt(pc) \ {l}
BY DEF TypeOK, Becomes, LookupsAt

(* A lookup that is somewhere is at an address.                            *)
LEMMA AddressOfLook ==
  ASSUME TypeOK, NEW l \in Lookups, look[l] # Idle
  PROVE  look[l].ip \in Addresses
BY DEF TypeOK, Lookings, Idle

(* Every answer is one of the verdicts.                                    *)
LEMMA AnsweredType ==
  ASSUME NEW ip \in Addresses, NEW blocked
  PROVE  /\ Answered(ip, VerdictOn(ip, blocked)) \in Lookings
         /\ Answered(ip, "unreliable") \in Lookings
         /\ Waiting(ip) \in Lookings /\ Downloading(ip) \in Lookings
BY DEF Answered, Waiting, Downloading, VerdictOn, Lookings, Verdicts

(* A lookup that begins or gets the lock.                                  *)
LEMMA BeginLockInv ==
  ASSUME LockInv, NEW l \in Lookups, NEW ip \in Addresses, Begin(l, ip)
  PROVE  LockInv'
<1>. USE FeodoAssumption DEF LockInv, LockAndLineAgree
<1>1. l \notin LookupsAt("downloading") /\ l \notin LookupsAt("waiting") /\ l # Nobody
  BY DEF Begin, LookupsAt, Idle
<1>2. UNCHANGED <<age, list, loaded, quiet>>
  BY DEF Begin
<1>3. CASE Becomes(l, Answered(ip, VerdictOn(ip, list))) /\ UNCHANGED <<holder, waiters>>
  <2>. DEFINE state == Answered(ip, VerdictOn(ip, list))
  <2>1. state \in Lookings /\ state.pc = "answered"
    BY AnsweredType DEF Answered
  <2>2. /\ look' \in [Lookups -> Lookings \cup {Idle}]
        /\ LookupsAt("downloading")' = LookupsAt("downloading")
        /\ LookupsAt("waiting")' = LookupsAt("waiting")
    BY <1>1, <1>3, <2>1, OneMoves
  <2>. QED
    BY <1>2, <1>3, <2>2 DEF TypeOK
<1>4. CASE holder = Nobody /\ waiters = <<>> /\ holder' = l /\ Becomes(l, Downloading(ip)) /\ UNCHANGED waiters
  <2>1. Downloading(ip) \in Lookings /\ Downloading(ip).pc = "downloading"
    BY AnsweredType DEF Downloading
  <2>2. /\ look' \in [Lookups -> Lookings \cup {Idle}]
        /\ LookupsAt("downloading")' = LookupsAt("downloading") \cup {l}
        /\ LookupsAt("waiting")' = LookupsAt("waiting") \ {l}
    BY <1>4, <2>1, OneMoves
  <2>3. TypeOK'
    BY <1>2, <1>4, <2>2 DEF TypeOK
  <2>4. LookupsAt("downloading")' = {holder'} \ {Nobody}
    BY <1>1, <1>4, <2>2
  <2>5. LookupsAt("waiting")' = ToSet(waiters') /\ IsInjective(waiters')
    BY <1>1, <1>4, <2>2
  <2>. QED
    BY <2>3, <2>4, <2>5
<1>5. CASE Becomes(l, Waiting(ip)) /\ waiters' = Append(waiters, l) /\ UNCHANGED holder
  <2>1. Waiting(ip) \in Lookings /\ Waiting(ip).pc = "waiting"
    BY AnsweredType DEF Waiting
  <2>2. /\ look' \in [Lookups -> Lookings \cup {Idle}]
        /\ LookupsAt("downloading")' = LookupsAt("downloading")
        /\ LookupsAt("waiting")' = LookupsAt("waiting") \cup {l}
    BY <1>1, <1>5, <2>1, OneMoves
  <2>3. /\ waiters' \in Seq(Lookups)
        /\ ToSet(waiters') = ToSet(waiters) \cup {l}
        /\ IsInjective(waiters')
    BY <1>1, <1>5, JoinLine DEF TypeOK
  <2>. QED
    BY <1>2, <1>5, <2>2, <2>3 DEF TypeOK
<1>. QED
  BY <1>3, <1>4, <1>5 DEF Begin

LEMMA AcquireLockInv ==
  ASSUME LockInv, NEW l \in Lookups, Acquire(l)
  PROVE  LockInv'
<1>. USE FeodoAssumption DEF LockInv, LockAndLineAgree
<1>1. /\ waiters' \in Seq(Lookups)
      /\ l \in ToSet(waiters) /\ ToSet(waiters') = ToSet(waiters) \ {l}
      /\ IsInjective(waiters')
  BY ServeLine DEF Acquire, TypeOK
<1>2. look[l].pc = "waiting" /\ look[l].ip \in Addresses /\ l \notin LookupsAt("downloading")
  <2>1. look[l].pc = "waiting"
    BY <1>1 DEF LookupsAt
  <2>. QED
    BY <2>1, AddressOfLook DEF Idle, LookupsAt
<1>3. UNCHANGED <<age, list, loaded, quiet>> /\ holder = Nobody
  BY DEF Acquire
<1>4. CASE Becomes(l, Answered(look[l].ip, VerdictOn(look[l].ip, list))) /\ UNCHANGED holder
  <2>. DEFINE state == Answered(look[l].ip, VerdictOn(look[l].ip, list))
  <2>1. state \in Lookings /\ state.pc = "answered"
    BY <1>2, AnsweredType DEF Answered
  <2>2. /\ look' \in [Lookups -> Lookings \cup {Idle}]
        /\ LookupsAt("downloading")' = LookupsAt("downloading")
        /\ LookupsAt("waiting")' = LookupsAt("waiting") \ {l}
    BY <1>2, <1>4, <2>1, OneMoves
  <2>. QED
    BY <1>1, <1>3, <1>4, <2>2 DEF TypeOK
<1>5. CASE holder' = l /\ Becomes(l, Downloading(look[l].ip))
  <2>1. Downloading(look[l].ip) \in Lookings /\ Downloading(look[l].ip).pc = "downloading"
    BY <1>2, AnsweredType DEF Downloading
  <2>2. /\ look' \in [Lookups -> Lookings \cup {Idle}]
        /\ LookupsAt("downloading")' = LookupsAt("downloading") \cup {l}
        /\ LookupsAt("waiting")' = LookupsAt("waiting") \ {l}
    BY <1>5, <2>1, OneMoves
  <2>. QED
    BY <1>1, <1>3, <1>5, <2>2 DEF TypeOK
<1>. QED
  BY <1>4, <1>5 DEF Acquire

(* A download that ends, whatever with, is that of the holder.             *)
LEMMA EndsLockInv ==
  ASSUME LockInv, NEW l \in Lookups, NEW found \in Verdicts, Ends(l, found),
         age' = 0, list' \in SUBSET Addresses, loaded' \in BOOLEAN
  PROVE  LockInv'
<1>. USE FeodoAssumption DEF LockInv, LockAndLineAgree
<1>1. look[l].pc = "downloading" /\ look[l].ip \in Addresses /\ l \notin LookupsAt("waiting") /\ holder = l
  <2>1. look[l].pc = "downloading"
    BY DEF Ends
  <2>. QED
    BY <2>1, AddressOfLook DEF Idle, LookupsAt
<1>2. /\ Answered(look[l].ip, found) \in Lookings
      /\ Answered(look[l].ip, found).pc = "answered"
  BY <1>1 DEF Answered, Lookings
<1>3. /\ look' \in [Lookups -> Lookings \cup {Idle}]
      /\ LookupsAt("downloading")' = LookupsAt("downloading") \ {l}
      /\ LookupsAt("waiting")' = LookupsAt("waiting") \ {l}
  BY <1>2, OneMoves DEF Ends
<1>4. holder' = Nobody /\ quiet' = 0 /\ waiters' = waiters
  BY DEF Ends
<1>5. TypeOK'
  BY <1>3, <1>4 DEF TypeOK
<1>6. LockAndLineAgree'
  BY <1>1, <1>3, <1>4
<1>. QED
  BY <1>5, <1>6

(* A lookup that is given up, wherever it is: it lets go of the lock or    *)
(* leaves the line.                                                        *)
LEMMA CancelLockInv ==
  ASSUME LockInv, NEW l \in Lookups, Cancel(l)
  PROVE  LockInv'
<1>. USE FeodoAssumption DEF LockInv, LockAndLineAgree
<1>1. /\ waiters' \in Seq(Lookups)
      /\ ToSet(waiters') = ToSet(waiters) \ {l}
      /\ IsInjective(waiters')
  BY LeaveLine DEF Cancel, TypeOK
<1>2. /\ look' \in [Lookups -> Lookings \cup {Idle}]
      /\ LookupsAt("downloading")' = LookupsAt("downloading") \ {l}
      /\ LookupsAt("waiting")' = LookupsAt("waiting") \ {l}
  <2>1. Idle.pc = "idle"
    BY DEF Idle
  <2>. QED
    BY <2>1, OneMoves DEF Cancel
<1>3. /\ holder' = IF holder = l THEN Nobody ELSE holder
      /\ UNCHANGED <<age, list, loaded, quiet>>
  BY DEF Cancel
<1>. QED
  BY <1>1, <1>2, <1>3 DEF TypeOK

LEMMA NextLockInv == LockInv /\ [Next]_vars => LockInv'
<1>. SUFFICES ASSUME LockInv, [Next]_vars PROVE LockInv'
  OBVIOUS
<1>. USE FeodoAssumption
<1>1. CASE UNCHANGED vars
  BY <1>1 DEF vars, code, LockInv, TypeOK, LockAndLineAgree, LookupsAt
<1>2. ASSUME NEW l \in Lookups, NEW ip \in Addresses, Begin(l, ip)
      PROVE  LockInv'
  BY <1>2, BeginLockInv
<1>3. ASSUME NEW l \in Lookups, Acquire(l)
      PROVE  LockInv'
  BY <1>3, AcquireLockInv
<1>4. ASSUME NEW l \in Lookups, NEW blocked \in SUBSET Addresses, DownloadSucceeds(l, blocked)
      PROVE  LockInv'
  <2>1. NewVerdict(l, blocked) \in Verdicts
    BY DEF NewVerdict, VerdictOn, Verdicts
  <2>. QED
    BY <1>4, <2>1, EndsLockInv DEF DownloadSucceeds
<1>5. ASSUME NEW l \in Lookups, DownloadFails(l)
      PROVE  LockInv'
  <2>1. "unreliable" \in Verdicts /\ list \in SUBSET Addresses /\ loaded \in BOOLEAN
    BY DEF Verdicts, LockInv, TypeOK
  <2>. QED
    BY <1>5, <2>1, EndsLockInv DEF DownloadFails
<1>6. ASSUME NEW l \in Lookups, Cancel(l)
      PROVE  LockInv'
  BY <1>6, CancelLockInv
<1>7. ASSUME NEW l \in Lookups, Deliver(l)
      PROVE  LockInv'
  <2>1. /\ look' \in [Lookups -> Lookings \cup {Idle}]
        /\ LookupsAt("downloading")' = LookupsAt("downloading") \ {l}
        /\ LookupsAt("waiting")' = LookupsAt("waiting") \ {l}
    <3>1. Idle.pc = "idle"
      BY DEF Idle
    <3>. QED
      BY <1>7, <3>1, OneMoves DEF Deliver, LockInv
  <2>2. l \notin LookupsAt("downloading") /\ l \notin LookupsAt("waiting")
    BY <1>7 DEF Deliver, LookupsAt
  <2>3. UNCHANGED <<age, list, holder, waiters, loaded, quiet>>
    BY <1>7 DEF Deliver
  <2>4. TypeOK'
    BY <2>1, <2>3 DEF LockInv, TypeOK
  <2>5. LockAndLineAgree'
    BY <2>1, <2>2, <2>3 DEF LockInv, LockAndLineAgree
  <2>. QED
    BY <2>4, <2>5 DEF LockInv
<1>8. CASE Tick
  <2>1. age' \in 0 .. TTL /\ quiet' \in 0 .. TTL
    BY <1>8 DEF Tick, Fresh, LockInv, TypeOK
  <2>. QED
    BY <1>8, <2>1 DEF Tick, LockInv, TypeOK, LockAndLineAgree, LookupsAt
<1>. QED
  BY <1>1, <1>2, <1>3, <1>4, <1>5, <1>6, <1>7, <1>8 DEF Next

(* The list, the lock, its line and the lookups are well typed             *)
(* (reputation_service.py, module level and _lookup_feodo).                *)
THEOREM TypeCorrect == Spec => []TypeOK
BY InitLockInv, NextLockInv, PTL DEF Spec, LockInv

(* Whoever downloads holds the lock, and those who wait are in line once,  *)
(* for any number of lookups, any of which may be given up at any moment   *)
(* (reputation_service.py, async with _get_feodo_lock()).                  *)
THEOREM LockCorrect == Spec => []LockAndLineAgree
BY InitLockInv, NextLockInv, PTL DEF Spec, LockInv

-----------------------------------------------------------------------------
(* However many lookups find the list stale at once, nobody downloads it   *)
(* again within the TTL of the last download (reputation_service.py, the   *)
(* second look at _FEODO_CACHE_TS).                                        *)
THEOREM NoStampede == Spec => []NoDownloadWithinTtl
<1>1. Inv => NoDownloadWithinTtl
  BY FeodoAssumption DEF Inv, NoDownloadWithinTtl, LookupsAt
<1>. QED
  BY <1>1, InitInv, NextInv, PTL DEF Spec

(* A reliable answer is about the list in force (reputation_service.py,    *)
(* _lookup_feodo).                                                         *)
THEOREM VerdictCorrect == Spec => VerdictAgreesWithList
<1>. DEFINE Agrees ==
       \A l \in Lookups :
         /\ look'[l].pc = "answered" /\ look[l].pc # "answered"
         /\ look'[l].verdict # "unreliable"
         => (look'[l].verdict = "malicious" <=> look'[l].ip \in list')
<1>1. Inv /\ [Next]_vars => [Agrees]_vars
  <2>. SUFFICES ASSUME Inv, Next PROVE Agrees
    OBVIOUS
  <2>. USE DEF Inv, Becomes, Idle, Waiting, Downloading, Answered, VerdictOn
  <2>1. ASSUME NEW l \in Lookups, NEW ip \in Addresses, Begin(l, ip)
        PROVE  Agrees
    BY <2>1 DEF Begin
  <2>2. ASSUME NEW l \in Lookups, Acquire(l)
        PROVE  Agrees
    BY <2>2 DEF Acquire
  <2>3. ASSUME NEW l \in Lookups, NEW blocked \in SUBSET Addresses, DownloadSucceeds(l, blocked)
        PROVE  Agrees
    BY <2>3 DEF DownloadSucceeds, Ends, NewVerdict
  <2>4. ASSUME NEW l \in Lookups, DownloadFails(l)
        PROVE  Agrees
    BY <2>4 DEF DownloadFails, Ends
  <2>5. ASSUME NEW l \in Lookups, Cancel(l) \/ Deliver(l)
        PROVE  Agrees
    BY <2>5 DEF Cancel, Deliver
  <2>6. CASE Tick
    BY <2>6 DEF Tick
  <2>. QED
    BY <2>1, <2>2, <2>3, <2>4, <2>5, <2>6 DEF Next
<1>. QED
  BY <1>1, InitInv, NextInv, PTL DEF Spec, VerdictAgreesWithList
=============================================================================
