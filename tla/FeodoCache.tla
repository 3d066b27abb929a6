----------------------------- MODULE FeodoCache -----------------------------
(***************************************************************************)
(* The blocklist that _lookup_feodo downloads at most once per TTL and the *)
(* lock around the download (backend/services/reputation_service.py).  The *)
(* lookups run on one event loop, as parts of analyze requests that give   *)
(* them up after two seconds (backend/routers/analyze.py): a lookup that   *)
(* is given up while it waits or downloads leaves through the async with,  *)
(* and asyncio.Lock serves its waiters first come first served.            *)
(*                                                                         *)
(* age is time.monotonic() - _FEODO_CACHE_TS, cut off at the TTL.  The     *)
(* timestamp starts at 0.0, so at the start of the process the age is the  *)
(* time since the machine was booted, which may be anything.  httpx is     *)
(* installed, as requirements.txt asks.                                    *)
(***************************************************************************)
EXTENDS Naturals, Sequences, SequencesExt

CONSTANTS
  Lookups,     (* lookups that can be going on at the same time            *)
  Addresses,   (* addresses looked up                                      *)
  TTL,         (* _FEODO_CACHE_TTL                                         *)
  Nobody       (* the holder of a lock that is free                        *)

ASSUME FeodoAssumption == TTL \in Nat \ {0} /\ Nobody \notin Lookups

VARIABLES
  age,         (* of _FEODO_CACHE_TS                                       *)
  list,        (* _FEODO_CACHE                                             *)
  holder,      (* of _FEODO_LOCK                                           *)
  waiters,     (* lookups waiting for _FEODO_LOCK, the next one first      *)
  look         (* look[l]: where lookup l is                               *)

VARIABLES      (* a record of what happened, which the code does not keep  *)
  loaded,      (* whether a download ever succeeded                        *)
  quiet        (* time since a download last ended, cut off at the TTL     *)

code == <<age, list, holder, waiters, look>>
vars == <<code, loaded, quiet>>

Idle == [pc |-> "idle"]

Verdicts == {"malicious", "clean", "unreliable"}

Lookings ==
  [pc : {"waiting", "downloading"}, ip : Addresses]
    \cup [pc : {"answered"}, ip : Addresses, verdict : Verdicts]

TypeOK ==
  /\ age \in 0 .. TTL
  /\ list \in SUBSET Addresses
  /\ holder \in Lookups \cup {Nobody}
  /\ waiters \in Seq(Lookups)
  /\ look \in [Lookups -> Lookings \cup {Idle}]
  /\ loaded \in BOOLEAN
  /\ quiet \in 0 .. TTL

Init ==
  /\ age \in 0 .. TTL
  /\ list = {}
  /\ holder = Nobody
  /\ waiters = <<>>
  /\ look = [l \in Lookups |-> Idle]
  /\ loaded = FALSE
  /\ quiet = TTL

-----------------------------------------------------------------------------
Fresh == age < TTL

VerdictOn(ip, blocked) == IF ip \in blocked THEN "malicious" ELSE "clean"

OldVerdict(l, blocked) == VerdictOn(look[l].ip, list)
NewVerdict(l, blocked) == VerdictOn(look[l].ip, blocked)

Becomes(l, state) == look' = [look EXCEPT ![l] = state]

Waiting(ip)         == [pc |-> "waiting", ip |-> ip]
Downloading(ip)     == [pc |-> "downloading", ip |-> ip]
Answered(ip, found) == [pc |-> "answered", ip |-> ip, verdict |-> found]

(* What a lookup does up to its first suspension: it answers from a fresh
   list, or starts the download if the lock is free, or queues up. *)
Begin(l, ip) ==
  /\ look[l] = Idle
  /\ \/ /\ Fresh
        /\ Becomes(l, Answered(ip, VerdictOn(ip, list)))
        /\ UNCHANGED <<holder, waiters>>
     \/ /\ ~Fresh
        /\ holder = Nobody /\ waiters = <<>>
        /\ holder' = l
        /\ Becomes(l, Downloading(ip))
        /\ UNCHANGED waiters
     \/ /\ ~Fresh
        /\ holder # Nobody \/ waiters # <<>>
        /\ Becomes(l, Waiting(ip))
        /\ waiters' = Append(waiters, l)
        /\ UNCHANGED holder
  /\ UNCHANGED <<age, list, loaded, quiet>>

(* The first waiter gets the lock and looks at the age again; if the list is
   fresh by now it releases the lock in the same step. *)
NoSecondLook(l) ==
  /\ holder = Nobody /\ waiters # <<>> /\ l = Head(waiters)
  /\ waiters' = Tail(waiters)
  /\ holder' = l
  /\ Becomes(l, Downloading(look[l].ip))
  /\ UNCHANGED <<age, list, loaded, quiet>>
Acquire(l) ==
  /\ holder = Nobody /\ waiters # <<>> /\ l = Head(waiters)
  /\ waiters' = Tail(waiters)
  /\ IF Fresh
     THEN /\ Becomes(l, Answered(look[l].ip, VerdictOn(look[l].ip, list)))
          /\ UNCHANGED holder
     ELSE /\ holder' = l
          /\ Becomes(l, Downloading(look[l].ip))
  /\ UNCHANGED <<age, list, loaded, quiet>>

(* A download ends with an answer and the lock is released. *)
Ends(l, found) ==
  /\ look[l].pc = "downloading"
  /\ holder' = Nobody
  /\ Becomes(l, Answered(look[l].ip, found))
  /\ quiet' = 0
  /\ UNCHANGED waiters

DownloadSucceeds(l, blocked) ==
  /\ Ends(l, NewVerdict(l, blocked))
  /\ list' = blocked
  /\ age' = 0
  /\ loaded' = TRUE

(* Another status than 200, a timeout or any other exception: the old list is
   kept, and counts as fresh for another TTL. *)
RetryAtOnce(l) == Ends(l, "unreliable") /\ UNCHANGED <<age, list, loaded>>
NoAnswer(l) == Ends(l, "None") /\ age' = 0 /\ UNCHANGED <<list, loaded>>
DownloadFails(l) == Ends(l, "unreliable") /\ age' = 0 /\ UNCHANGED <<list, loaded>>

(* wait_for gives the lookup up, wherever it is.  A cancelled download leaves
   the timestamp alone. *)
CancelInLine(l) ==
  /\ look[l] # Idle
  /\ Becomes(l, Idle)
  /\ holder' = IF holder = l THEN Nobody ELSE holder
  /\ UNCHANGED <<age, list, waiters, loaded, quiet>>
CancelLocked(l) ==
  /\ look[l] # Idle
  /\ Becomes(l, Idle)
  /\ waiters' = RemoveFirst(waiters, l)
  /\ UNCHANGED <<age, list, holder, loaded, quiet>>
Cancel(l) ==
  /\ look[l] # Idle
  /\ Becomes(l, Idle)
  /\ waiters' = RemoveFirst(waiters, l)
  /\ holder' = IF holder = l THEN Nobody ELSE holder
  /\ UNCHANGED <<age, list, loaded, quiet>>

(* The other sources have answered too and the request goes on. *)
Deliver(l) ==
  /\ look[l].pc = "answered"
  /\ Becomes(l, Idle)
  /\ UNCHANGED <<age, list, holder, waiters, loaded, quiet>>

Tick ==
  /\ age' = IF Fresh THEN age + 1 ELSE age
  /\ quiet' = IF quiet < TTL THEN quiet + 1 ELSE quiet
  /\ UNCHANGED <<list, holder, waiters, look, loaded>>

Next ==
  \/ \E l \in Lookups :
       \/ \E ip \in Addresses : Begin(l, ip)
       \/ Acquire(l)
       \/ \E blocked \in SUBSET Addresses : DownloadSucceeds(l, blocked)
       \/ DownloadFails(l)
       \/ Cancel(l)
       \/ Deliver(l)
  \/ Tick

(* The time limit of the request always strikes in the end, and a waiter that
   has been woken is scheduled.  Nothing is assumed of the network. *)
Fairness ==
  \A l \in Lookups : WF_vars(Cancel(l)) /\ WF_vars(Acquire(l))

Spec == Init /\ [][Next]_vars /\ Fairness

-----------------------------------------------------------------------------
LookupsAt(pc) == {l \in Lookups : look[l].pc = pc}

(* The lock belongs to the lookup that downloads and the line is made of   *)
(* the lookups that wait, each once, although any of them may be cancelled *)
(* at any moment (reputation_service.py, async with _get_feodo_lock()).    *)
LockAndLineAgree ==
  /\ LookupsAt("downloading") = {holder} \ {Nobody}
  /\ LookupsAt("waiting") = ToSet(waiters)
  /\ IsInjective(waiters)

(* No stampede: however many lookups find the list stale at once, nobody   *)
(* downloads it again within the TTL of a download that succeeded or       *)
(* failed (reputation_service.py, the second look at _FEODO_CACHE_TS).     *)
NoDownloadWithinTtl == LookupsAt("downloading") # {} => quiet = TTL

(* A reliable answer is about the list that is in force once it is given,  *)
(* whether it comes from the cache, from the lookup's own download or from *)
(* one that it waited for (reputation_service.py, _lookup_feodo).          *)
VerdictAgreesWithList ==
  [][\A l \in Lookups :
       /\ look'[l].pc = "answered" /\ look[l].pc # "answered"
       /\ look'[l].verdict # "unreliable"
       => (look'[l].verdict = "malicious" <=> look'[l].ip \in list')]_vars

(* The lock never stays with one lookup for good, even if the server with  *)
(* the list accepts the connection and sends nothing (analyze.py, wait_for *)
(* around lookup_all).                                                     *)
LockIsFreed == \A l \in Lookups : holder = l ~> holder # l

(* A lookup answers as reliable only once a list has been downloaded.      *)
ReliableOnceLoaded ==
  \A l \in LookupsAt("answered") : look[l].verdict # "unreliable" => loaded
=============================================================================
