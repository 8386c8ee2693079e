------------------------------ MODULE PrefsSync ------------------------------
(***************************************************************************)
(* How a browser keeps the user's preferences on the server: the debounced *)
(* push after a save, the flush when the page is hidden or goes away, and  *)
(* the snapshot that is fetched and applied when the page is opened.       *)
(*                                                                         *)
(* A store's preferences are the number of their last change.  They are    *)
(* kept by the browser (local) as soon as they are changed, so that a page *)
(* that is opened later starts from them.                                  *)
(***************************************************************************)
EXTENDS Integers, FiniteSets, Sequences, SequencesExt

CONSTANTS
  Stores,       \* the stores that take part
  Quiet,        \* those that save without triggering a sync (gallery boards)
  LateStores,   \* those applyAll reaches after its last await
  Resaving,     \* those that trigger a sync when a snapshot is applied
  None,
  Aborts,       \* the browser aborts the requests of a page that is closed
  MaxChanges,   \* bound: the number of the last change
  MaxLaunches,  \* bound: how often the page is opened
  MaxFaults     \* bound: requests that are lost or refused

ASSUME PrefsAssumption ==
  /\ Quiet \subseteq Stores /\ LateStores \subseteq Stores /\ Resaving \subseteq LateStores
  /\ Aborts \in BOOLEAN
  /\ MaxChanges \in Nat \ {0} /\ MaxLaunches \in Nat /\ MaxFaults \in Nat

VARIABLES
  local,        \* what the browser keeps
  server,       \* prefs.json of the user, None before the first push
  changes,      \* the number of the last change
  open,         \* the page is open
  launches,
  timer,        \* _syncTimer is set
  syncing,      \* _syncing
  pending,      \* _pending
  net,          \* the requests on their way to the server, in order
  load,         \* loadAndApply: where it is, and the snapshot it was answered
  opened,       \* what the browser kept when the page was opened
  interrupted,  \* a page was closed during a push or before it had loaded
  faults

page == <<open, launches, timer, syncing, pending>>
vars == <<local, server, changes, page, net, load, opened, interrupted, faults>>

Snapshot == [Stores -> 0..MaxChanges]

(* A push started by loadAndApply (seed) does not pass through _doSync.    *)
Request ==
  [kind : {"push"}, snap : Snapshot, seed : BOOLEAN, keepalive : BOOLEAN,
   launch : 1..MaxLaunches] \cup [kind : {"fetch"}, launch : 1..MaxLaunches]

Put(seed, keepalive) ==
  [kind |-> "push", snap |-> local, seed |-> seed, keepalive |-> keepalive,
   launch |-> launches]

TypeOK ==
  /\ local \in Snapshot /\ opened \in Snapshot
  /\ server \in Snapshot \cup {None}
  /\ changes \in 0..MaxChanges /\ launches \in 0..MaxLaunches
  /\ faults \in 0..MaxFaults
  /\ {open, timer, syncing, pending, interrupted} \subseteq BOOLEAN
  /\ net \in Seq(Request)
  /\ load \in [pc : {"fetching", "answered", "applying", "done"},
               snap : Snapshot \cup {None}]
  /\ load.pc = "applying" => load.snap # None
  /\ ~open => ~timer /\ load.pc = "done"

Loaded == [pc |-> "done", snap |-> None]

(* Another device may have pushed before this one is opened. *)
Init ==
  /\ local = [s \in Stores |-> 0]
  /\ server \in {None, [s \in Stores |-> 1]}
  /\ changes = 1
  /\ open = FALSE /\ launches = 0
  /\ timer = FALSE /\ syncing = FALSE /\ pending = FALSE
  /\ net = <<>>
  /\ load = Loaded
  /\ opened = local
  /\ interrupted = FALSE
  /\ faults = 0

-----------------------------------------------------------------------------
(* A fault to test with: a push is started whatever is in flight. *)
DoSyncAlways(requests, keepalive) ==
  /\ net' = Append(requests, Put(FALSE, keepalive))
  /\ syncing' = TRUE
  /\ UNCHANGED pending

(* _doSync: a push in flight is not overtaken; another one is noted. *)
DoSync(requests, keepalive) ==
  /\ syncing' = TRUE
  /\ IF syncing
     THEN pending' = TRUE /\ net' = requests
     ELSE net' = Append(requests, Put(FALSE, keepalive)) /\ UNCHANGED pending

(* The page is opened: the stores start from what the browser keeps, and   *)
(* loadAndApply asks the server for its snapshot.                          *)
Open ==
  /\ ~open /\ launches < MaxLaunches
  /\ open' = TRUE
  /\ launches' = launches + 1
  /\ timer' = FALSE /\ syncing' = FALSE /\ pending' = FALSE
  /\ net' = Append(net, [kind |-> "fetch", launch |-> launches + 1])
  /\ load' = [pc |-> "fetching", snap |-> None]
  /\ opened' = local
  /\ UNCHANGED <<local, server, changes, interrupted, faults>>

(* The user changes something; its store saves it and calls triggerSync,   *)
(* which starts the two seconds again.                                     *)
Change(s) ==
  /\ open /\ changes < MaxChanges
  /\ changes' = changes + 1
  /\ local' = [local EXCEPT ![s] = changes + 1]
  /\ timer' = (timer \/ s \notin Quiet)
  /\ UNCHANGED <<server, open, launches, syncing, pending, net, load, opened,
                 interrupted, faults>>

TimerFires ==
  /\ open /\ timer
  /\ timer' = FALSE
  /\ DoSync(net, FALSE)
  /\ UNCHANGED <<local, server, changes, open, launches, load, opened,
                 interrupted, faults>>

(* A fault to test with: the timer is stopped, and nothing pushed. *)
FlushNothing ==
  /\ timer' = FALSE
  /\ UNCHANGED <<net, syncing, pending>>

(* flush: a waiting push is started at once, and may outlive the page. *)
Flush ==
  /\ timer' = FALSE
  /\ IF timer THEN DoSync(net, TRUE) ELSE UNCHANGED <<net, syncing, pending>>

Hide ==
  /\ open /\ timer
  /\ Flush
  /\ UNCHANGED <<local, server, changes, open, launches, load, opened,
                 interrupted, faults>>

(* pagehide, and the page is gone: its requests go on if they are          *)
(* keepalive, the browser may abort the others.                            *)
Close ==
  /\ open
  /\ Flush
  /\ open' = FALSE
  /\ load' = Loaded
  /\ interrupted' = (interrupted \/ syncing \/ load.pc # "done")
  /\ UNCHANGED <<local, server, changes, launches, opened, faults>>

Abort ==
  /\ Aborts /\ ~open
  /\ \E i \in DOMAIN net :
       /\ net[i].kind = "push" => ~net[i].keepalive
       /\ net' = RemoveAt(net, i)
  /\ UNCHANGED <<local, server, changes, page, load, opened, interrupted, faults>>

-----------------------------------------------------------------------------
(***************************************************************************)
(* The server, which takes the requests in the order they were sent, and   *)
(* the page that is told the outcome.                                      *)
(***************************************************************************)

(* The request belongs to the page that is open now. *)
Current(r) == open /\ r.launch = launches

(* A fault to test with: the push that was asked for meanwhile is left out.*)
PushEndsForGood(r) ==
  /\ net' = Tail(net)
  /\ UNCHANGED page
  /\ syncing' = IF Current(r) /\ ~r.seed THEN FALSE ELSE syncing
  /\ pending' = IF Current(r) /\ ~r.seed THEN FALSE ELSE pending

(* The end of _doSync, however the push went: pushServerPrefs never throws.*)
(* The push that was asked for meanwhile is made now.                      *)
PushEnds(r) ==
  /\ UNCHANGED <<open, launches, timer>>
  /\ IF ~Current(r) \/ r.seed
     THEN net' = Tail(net) /\ UNCHANGED <<syncing, pending>>
     ELSE /\ pending' = FALSE
          /\ syncing' = pending
          /\ net' = IF pending THEN Append(Tail(net), Put(FALSE, FALSE)) ELSE Tail(net)

ServePush ==
  /\ net # <<>> /\ Head(net).kind = "push"
  /\ server' = Head(net).snap
  /\ PushEnds(Head(net))
  /\ UNCHANGED <<local, changes, load, opened, interrupted, faults>>

(* The request or its answer is lost, or the server refuses it: the page   *)
(* goes on, and a fetch gives null, as for a user without preferences.     *)
FetchEnds(r, answer) ==
  /\ net' = Tail(net)
  /\ load' = IF Current(r) THEN [pc |-> "answered", snap |-> answer] ELSE load
  /\ UNCHANGED page

ServeFetch ==
  /\ net # <<>> /\ Head(net).kind = "fetch"
  /\ FetchEnds(Head(net), server)
  /\ UNCHANGED <<local, server, changes, opened, interrupted, faults>>

Fail ==
  /\ net # <<>> /\ faults < MaxFaults
  /\ faults' = faults + 1
  /\ \/ Head(net).kind = "push" /\ PushEnds(Head(net)) /\ UNCHANGED load
     \/ Head(net).kind = "fetch" /\ FetchEnds(Head(net), None)
  /\ UNCHANGED <<local, server, changes, opened, interrupted>>

-----------------------------------------------------------------------------
(***************************************************************************)
(* The rest of loadAndApply.                                               *)
(***************************************************************************)

Applied(stores) == [s \in Stores |-> IF s \in stores THEN load.snap[s] ELSE local[s]]

(* There is no snapshot: the local state becomes the first one. *)
Seed ==
  /\ load.pc = "answered" /\ load.snap = None
  /\ load' = Loaded
  /\ net' = Append(net, Put(TRUE, FALSE))
  /\ UNCHANGED <<local, server, changes, page, opened, interrupted, faults>>

(* applyAll up to its second await: the stores after it keep what they had.*)
ApplyEarly ==
  /\ load.pc = "answered" /\ load.snap # None
  /\ load' = [load EXCEPT !.pc = "applying"]
  /\ local' = Applied(Stores \ LateStores)
  /\ UNCHANGED <<server, changes, page, net, opened, interrupted, faults>>

(* The stores after it.  Some of them save what they were given, and so    *)
(* trigger a sync.                                                         *)
ApplyLate ==
  /\ load.pc = "applying"
  /\ load' = Loaded
  /\ local' = Applied(LateStores)
  /\ timer' = (timer \/ Resaving # {})
  /\ UNCHANGED <<server, changes, open, launches, syncing, pending, net, opened,
                 interrupted, faults>>

Next ==
  \/ Open \/ Hide \/ Close \/ Abort \/ TimerFires
  \/ \E s \in Stores : Change(s)
  \/ ServePush \/ ServeFetch \/ Fail
  \/ Seed \/ ApplyEarly \/ ApplyLate

Spec == Init /\ [][Next]_vars

(* Timers fire, requests are answered and callbacks run; nobody has to     *)
(* open, hide or close a page, and nothing has to fail.                    *)
FairSpec ==
  /\ Spec
  /\ WF_vars(TimerFires)
  /\ WF_vars(ServePush \/ ServeFetch)
  /\ WF_vars(Seed \/ ApplyEarly \/ ApplyLate)

-----------------------------------------------------------------------------
InFlight == {i \in DOMAIN net : net[i].kind = "push" /\ ~net[i].seed /\ Current(net[i])}

(* _syncing stands for exactly one push of the open page, so it is never   *)
(* left set, and a note that another push is needed is never left without  *)
(* a push whose end reads it.                                              *)
PushInFlight ==
  open => /\ Cardinality(InFlight) = IF syncing THEN 1 ELSE 0
          /\ pending => syncing

(* If no page was ever closed with a push under way or before it had       *)
(* loaded, and no request failed, the snapshot a launch applies is never   *)
(* older than what the browser kept: flush and keepalive do save the last  *)
(* changes.                                                                *)
CleanCloseKeeps ==
  load.pc = "answered" /\ load.snap # None /\ ~interrupted /\ faults = 0 =>
    \A s \in Stores \ Quiet : load.snap[s] >= opened[s]

(* The same for every close: flush is there because a change "in the last  *)
(* two seconds before the tab closes would otherwise [...] never reach the *)
(* server", and the next launch's loadAndApply "would then overwrite it    *)
(* with the stale snapshot".                                               *)
FlushKeepsChanges ==
  load.pc = "answered" /\ load.snap # None /\ faults = 0 =>
    \A s \in Stores \ Quiet : load.snap[s] >= opened[s]

(* All stores are synced whenever they persist: with the page open and no  *)
(* failure, what the user sees becomes what the server has.                *)
SyncedOrFailed(s) == faults > 0 \/ (server # None /\ server[s] = local[s])

Converges == \A s \in Stores \ Quiet : <>[]open => <>[]SyncedOrFailed(s)

AllStoresConverge == \A s \in Stores : <>[]open => <>[]SyncedOrFailed(s)

=============================================================================
