------------------------- MODULE PromptOutputsProofs -------------------------
(***************************************************************************)
(* What the browser makes of its prompts in PromptOutputs, for any prompts *)
(* and outputs, any number of overlapping callbacks of the interval, and   *)
(* any number of events, lost connections and failures.                    *)
(***************************************************************************)
EXTENDS PromptOutputs, SeqRetainProofs

-----------------------------------------------------------------------------
(* Sequences. *)

(* A sequence has the elements it is made of. *)
LEMMA RangeIsElems ==
  ASSUME NEW V, NEW s \in Seq(V)
  PROVE  /\ Range(s) = Elems(s) /\ Range(s) \subseteq V
         /\ DOMAIN s = 1..Len(s) /\ Len(s) \in Nat
         /\ IsInjective(s) <=> Distinct(s)
BY DEF Range, Elems, IsInjective, Distinct

LEMMA FirstTaken ==
  ASSUME NEW V, NEW s \in Seq(V), s # <<>>
  PROVE  /\ Tail(s) \in Seq(V) /\ Head(s) = s[1] /\ Head(s) \in V
         /\ Len(Tail(s)) = Len(s) - 1
         /\ \A i \in 1..Len(Tail(s)) : Tail(s)[i] = s[i + 1]
         /\ Len(s) \in Nat /\ Len(s) >= 1
OBVIOUS

(* A sequence of some prompts has each of them. *)
LEMMA Ordered ==
  ASSUME NEW ps \in SUBSET Prompts
  PROVE  /\ SetToSeq(ps) \in [1..Cardinality(ps) -> ps]
         /\ Cardinality(ps) \in Nat
         /\ \A p \in ps : \E i \in 1..Cardinality(ps) : SetToSeq(ps)[i] = p
<1> DEFINE n == Cardinality(ps)
           f == SetToSeq(ps)
<1>1. IsFiniteSet(ps)
  BY OutputsAssumption, FS_Subset
<1>2. n \in Nat /\ ExistsBijection(1..n, ps)
  BY <1>1, FS_CardinalityType
<1>3. PICK g \in [1..n -> ps] : IsInjective(g)
  BY <1>2 DEF ExistsBijection, Bijection, Injection, IsInjective
<1>4. f \in [1..n -> ps] /\ IsInjective(f)
  BY <1>3 DEF SetToSeq
<1> HIDE DEF f
<1>5. f \in Bijection(1..n, Range(f))
  BY <1>4 DEF Bijection, Injection, Surjection, Range, IsInjective
<1>6. ExistsBijection(1..n, Range(f))
  BY <1>5 DEF ExistsBijection
<1>7. Cardinality(Range(f)) = n /\ Range(f) \subseteq ps
  BY <1>2, <1>4, <1>6, FS_CountingElements DEF Range
<1>8. Range(f) = ps
  BY <1>1, <1>7, FS_Subset
<1> QED
  BY <1>2, <1>4, <1>8 DEF Range, f

LEMMA ForEachType ==
  ASSUME NEW ps \in SUBSET Prompts, NEW kind \in {"queued", "executing", "preview", "done", "error"}
  PROVE  /\ ForEach(kind, ps) \in Seq(Event)
         /\ \A i \in 1..Len(ForEach(kind, ps)) : \E p \in ps : ForEach(kind, ps)[i] = OfKind(kind, p)
         /\ \A p \in ps : \E i \in 1..Len(ForEach(kind, ps)) : ForEach(kind, ps)[i] = OfKind(kind, p)
<1> DEFINE n == Cardinality(ps)
           s == SetToSeq(ps)
<1>1. n \in Nat /\ s \in [1..n -> ps] /\ \A p \in ps : \E i \in 1..n : s[i] = p
  BY Ordered
<1>2. ForEach(kind, ps) = [i \in 1..n |-> OfKind(kind, s[i])]
  BY DEF ForEach
<1> HIDE DEF n, s
<1>3. \A i \in 1..n : s[i] \in ps /\ OfKind(kind, s[i]) \in Event
  BY <1>1 DEF OfKind, Event
<1>4. ForEach(kind, ps) \in [1..n -> Event]
  BY <1>2, <1>3
<1>5. ForEach(kind, ps) \in Seq(Event) /\ Len(ForEach(kind, ps)) = n
  BY <1>1, <1>4
<1> QED
  BY <1>1, <1>2, <1>3, <1>5

LEMMA EventTypes ==
  /\ \A p \in Prompts : \A kind \in {"queued", "executing", "preview", "done", "error"} :
       OfKind(kind, p) \in Event
  /\ \A p \in Prompts : \A o \in Outputs : [kind |-> "output", prompt |-> p, output |-> o] \in Event
  /\ [kind |-> "cleared"] \in Event
  /\ \A e \in Event : e.kind # "cleared" => e.prompt \in Prompts
  /\ \A e \in Event : e.kind = "output" => e.output \in Outputs
BY DEF OfKind, Event

LEMMA EmitType ==
  ASSUME chan \in Seq(Event), NEW events \in Seq(Event), Emit(events)
  PROVE  chan' \in Seq(Event)
<1>1. chan \o events \in Seq(Event)
  BY ConcatProperties
<1> QED
  BY <1>1 DEF Emit

-----------------------------------------------------------------------------
(* Types. *)

LEMMA TypeFacts ==
  ASSUME TypeOK
  PROVE  /\ chan \in Seq(Event) /\ pending \in Seq(Prompts) /\ Distinct(pending)
         /\ Range(pending) = Elems(pending) /\ Range(pending) \subseteq Prompts
         /\ \A r \in Ticks : tick[r] \in Reconciler
         /\ \A p \in Prompts : closing[p] \in Handler
BY RangeIsElems DEF TypeOK

LEMMA EnqueueType ==
  ASSUME TypeOK, NEW p \in Prompts, Enqueue(p)
  PROVE  /\ pending' \in Seq(Prompts) /\ Distinct(pending')
         /\ Range(pending') = Range(pending) \cup {p}
         /\ added' \in [Prompts -> Nat] /\ aged' \subseteq Prompts
<1>1. CASE Tracked(p)
  BY <1>1, TypeFacts DEF Enqueue, Tracked, TypeOK
<1>2. CASE ~Tracked(p)
  <2>1. p \notin Elems(pending) /\ pending' = Append(pending, p)
    BY <1>2, TypeFacts DEF Enqueue, Tracked
  <2>2. /\ pending' \in Seq(Prompts) /\ Distinct(pending')
        /\ Elems(pending') = Elems(pending) \cup {p}
    BY <2>1, TypeFacts, AppendDistinct, AppendElems
  <2>3. added' \in [Prompts -> Nat] /\ aged' \subseteq Prompts
    <3>1. added \in [Prompts -> Nat] /\ aged \subseteq Prompts
      BY DEF TypeOK
    <3>2. added' = [added EXCEPT ![p] = @ + 1] /\ aged' = aged \ {p}
      BY <1>2 DEF Enqueue
    <3>3. added[p] + 1 \in Nat
      BY <3>1
    <3> QED
      BY <3>1, <3>2, <3>3
  <2> QED
    BY <2>2, <2>3, TypeFacts, RangeIsElems
<1> QED
  BY <1>1, <1>2

LEMMA OthersType ==
  ASSUME TypeOK, NEW p
  PROVE  /\ Others(p) \in Seq(Prompts) /\ Distinct(Others(p))
         /\ Range(Others(p)) = Range(pending) \ {p}
<1>1. Others(p) \in Seq(Prompts) /\ Distinct(Others(p)) /\ Elems(Others(p)) = Elems(pending) \ {p}
  BY TypeFacts, WithoutProperties, WithoutDistinct DEF Others
<1> QED
  BY <1>1, TypeFacts, RangeIsElems

LEMMA FinalizeType ==
  ASSUME TypeOK, NEW p \in Prompts, NEW imgs \in SUBSET Outputs, Finalize(p, imgs)
  PROVE  shown' \in [Prompts -> Nat] /\ gallery' \in [Prompts -> SUBSET Outputs]
<1>1. shown \in [Prompts -> Nat] /\ gallery \in [Prompts -> SUBSET Outputs]
  BY DEF TypeOK
<1>2. shown[p] + (IF imgs = {} THEN 0 ELSE 1) \in Nat
  BY <1>1
<1>3. (IF imgs = {} THEN gallery[p] ELSE imgs) \in SUBSET Outputs
  BY <1>1
<1> QED
  BY <1>1, <1>2, <1>3 DEF Finalize

(* The tracked prompts and what is displayed after a prompt was completed, *)
(* removed, or all of them were.                                           *)
ShownOK(pend, act, pre) ==
  /\ pend \in Seq(Prompts) /\ IsInjective(pend)
  /\ act \in Prompts \cup {None} /\ pre \in Prompts \cup {None}
  /\ act # None => act \in Range(pend)

LEMMA CompleteType ==
  ASSUME TypeOK, NEW p \in Prompts, Complete(p)
  PROVE  /\ ShownOK(pending', active', preview')
         /\ Range(pending') = Range(pending) \ {p}
         /\ activity' \in [Prompts -> {"none", "recent", "aged", "reset"}]
         /\ images' \in [Prompts -> SUBSET Outputs]
         /\ shown' \in [Prompts -> Nat] /\ gallery' \in [Prompts -> SUBSET Outputs]
<1>1. /\ pending' = Others(p) /\ Others(p) \in Seq(Prompts) /\ Distinct(Others(p))
      /\ Range(Others(p)) = Range(pending) \ {p}
  BY OthersType DEF Complete, CompletePrompt
<1>2. IsInjective(pending')
  BY <1>1, RangeIsElems
<1>3. ShownOK(pending', active', preview')
  BY <1>1, <1>2 DEF Complete, CompletePrompt, ShownOK, TypeOK
<1>4. activity' \in [Prompts -> {"none", "recent", "aged", "reset"}]
  BY DEF Complete, CompletePrompt, TypeOK
<1>5. /\ images' \in [Prompts -> SUBSET Outputs]
      /\ shown' \in [Prompts -> Nat] /\ gallery' \in [Prompts -> SUBSET Outputs]
  <2>1. CASE Tracked(p)
    <3>1. images \in [Prompts -> SUBSET Outputs] /\ images[p] \in SUBSET Outputs
      BY DEF TypeOK
    <3>2. Finalize(p, images[p]) /\ images' = [images EXCEPT ![p] = {}]
      BY <2>1 DEF Complete
    <3> QED
      BY <3>1, <3>2, FinalizeType
  <2>2. CASE ~Tracked(p)
    BY <2>2 DEF Complete, TypeOK
  <2> QED
    BY <2>1, <2>2
<1> QED
  BY <1>1, <1>3, <1>4, <1>5

LEMMA AtRest == Sleeping \in Reconciler /\ Sleeping.pc = "idle"
<1>1. <<>> \in Seq(Prompts)
  BY EmptySeq
<1> QED
  BY <1>1 DEF Sleeping, Reconciler, Guards

LEMMA GoOnType ==
  ASSUME NEW t \in Reconciler
  PROVE  /\ GoOn(t) \in Reconciler
         /\ GoOn(t).pc \in {"idle", "loop"}
         /\ GoOn(t).pc = "loop" =>
              /\ GoOn(t).old = t.old /\ GoOn(t).silent = t.silent /\ GoOn(t).snap = t.snap
              /\ GoOn(t).late = t.late
<1>1. Sleeping \in Reconciler /\ Sleeping.pc = "idle"
  BY AtRest
<1>2. CASE Len(t.todo) <= 1
  BY <1>1, <1>2 DEF GoOn
<1>3. CASE ~(Len(t.todo) <= 1)
  <2>1. t.todo \in Seq(Prompts)
    BY DEF Reconciler
  <2>2. t.todo # <<>>
    BY <1>3, <2>1
  <2>3. Tail(t.todo) \in Seq(Prompts)
    BY <2>1, <2>2
  <2>4. GoOn(t) = [t EXCEPT !.pc = "loop", !.todo = Tail(@), !.waits = {}]
    BY <1>3 DEF GoOn
  <2> QED
    BY <2>3, <2>4 DEF Reconciler
<1> QED
  BY <1>2, <1>3

LEMMA HeardType ==
  ASSUME TypeOK, NEW p \in Prompts, Heard(p)
  PROVE  /\ activity' \in [Prompts -> {"none", "recent", "aged", "reset"}]
         /\ tick' \in [Ticks -> Reconciler]
<1>1. \A r \in Ticks : [tick[r] EXCEPT !.silent = @ \ {p}] \in Reconciler
  BY TypeFacts DEF Reconciler
<1> QED
  BY <1>1 DEF Heard, TypeOK

LEMMA RecoveredType ==
  ASSUME TypeOK, NEW p \in Prompts, NEW imgs, Recovered(p, imgs)
  PROVE  faults' \in 0..MaxFaults /\ missed' \subseteq Prompts
BY OutputsAssumption DEF Recovered, TypeOK

LEMMA SettledType ==
  ASSUME TypeOK, NEW p \in Prompts, NEW waits, Settled(p, waits)
  PROVE  faults' \in 0..MaxFaults /\ missed' \subseteq Prompts
BY OutputsAssumption DEF Settled, TypeOK

LEMMA OutputsFacts == \A p \in Prompts : SUBSET OutputsOf[p] \subseteq SUBSET Outputs
BY DEF Outputs

LEMMA InitType == Init => TypeOK
<1> SUFFICES ASSUME Init PROVE TypeOK
  OBVIOUS
<1>1. Resting \in Handler /\ Sleeping \in Reconciler
  BY AtRest DEF Resting, Handler
<1>2. closing \in [Prompts -> Handler] /\ tick \in [Ticks -> Reconciler]
  BY <1>1 DEF Init
<1>3. pending \in Seq(Prompts) /\ Distinct(pending) /\ chan \in Seq(Event)
  BY DEF Init, Distinct
<1>4. IsInjective(pending)
  BY <1>3, RangeIsElems
<1>5. drops \in 0..MaxDrops /\ faults \in 0..MaxFaults
  BY OutputsAssumption DEF Init
<1>6. link \in Links
  BY DEF Init, Links
<1>7. lost \in [Prompts -> {"no"} \cup Guards]
  BY DEF Init
<1> QED
  BY <1>2, <1>3, <1>4, <1>5, <1>6, <1>7 DEF Init, TypeOK

LEMMA ServerType ==
  ASSUME TypeOK, NEW p \in Prompts,
         \/ Accept(p) \/ Unshield(p) \/ Run(p) \/ End(p) \/ Break(p) \/ Forget(p)
         \/ \E o \in Outputs : Output(p, o)
  PROVE  TypeOK'
<1> USE TypeFacts, EventTypes
<1> USE DEF server, stream, client, view, collected, outcome, bounds
<1>1. ASSUME Accept(p) PROVE TypeOK'
  <2>1. chan' \in Seq(Event)
    <3>1. <<OfKind("queued", p)>> \in Seq(Event)
      OBVIOUS
    <3> QED
      BY <1>1, <3>1, EmitType DEF Accept
  <2> QED
    BY <1>1, <2>1 DEF Accept, TypeOK
<1>2. ASSUME Unshield(p) PROVE TypeOK'
  BY <1>2 DEF Unshield, TypeOK
<1>3. ASSUME Run(p) PROVE TypeOK'
  <2>1. chan' \in Seq(Event)
    <3>1. <<OfKind("executing", p), OfKind("preview", p)>> \in Seq(Event)
      OBVIOUS
    <3> QED
      BY <1>3, <3>1, EmitType DEF Run, EmitOf
  <2>2. missed' \subseteq Prompts
    BY <1>3 DEF Run, EmitOf, TypeOK
  <2> QED
    BY <1>3, <2>1, <2>2 DEF Run, TypeOK
<1>4. ASSUME End(p) PROVE TypeOK'
  <2>1. chan' \in Seq(Event)
    <3>1. <<OfKind("done", p)>> \in Seq(Event)
      OBVIOUS
    <3> QED
      BY <1>4, <3>1, EmitType DEF End, EmitOf
  <2>2. missed' \subseteq Prompts
    BY <1>4 DEF End, EmitOf, TypeOK
  <2> QED
    BY <1>4, <2>1, <2>2 DEF End, TypeOK
<1>5. ASSUME Break(p) PROVE TypeOK'
  <2>1. chan' \in Seq(Event)
    <3>1. <<OfKind("error", p)>> \in Seq(Event)
      OBVIOUS
    <3> QED
      BY <1>5, <3>1, EmitType DEF Break
  <2>2. missed' \subseteq Prompts /\ faults' \in 0..MaxFaults
    BY <1>5, OutputsAssumption DEF Break, TypeOK
  <2> QED
    BY <1>5, <2>1, <2>2 DEF Break, TypeOK
<1>6. ASSUME Forget(p) PROVE TypeOK'
  <2>1. chan' \in Seq(Event)
    <3>1. InQueue \ {p} \in SUBSET Prompts
      BY DEF InQueue
    <3>2. ForEach("queued", InQueue \ {p}) \in Seq(Event)
      BY <3>1, ForEachType
    <3> QED
      BY <1>6, <3>2, EmitType DEF Forget
  <2> QED
    BY <1>6, <2>1 DEF Forget, TypeOK
<1>7. ASSUME NEW o \in Outputs, Output(p, o) PROVE TypeOK'
  <2>1. chan' \in Seq(Event)
    <3>1. <<[kind |-> "output", prompt |-> p, output |-> o]>> \in Seq(Event)
      OBVIOUS
    <3> QED
      BY <1>7, <3>1, EmitType DEF Output, EmitOf
  <2>2. missed' \subseteq Prompts /\ cache' \in [Prompts -> SUBSET Outputs]
    BY <1>7 DEF Output, EmitOf, TypeOK
  <2> QED
    BY <1>7, <2>1, <2>2 DEF Output, TypeOK
<1> QED
  BY <1>1, <1>2, <1>3, <1>4, <1>5, <1>6, <1>7

(* The news of a worker changes only what the page makes of it. *)
LEMMA NewsOnly ==
  ASSUME TypeOK, Connection
  PROVE  /\ UNCHANGED <<server, chan, missed, client, drops>>
         /\ link' \in Links /\ link'.open = link.open /\ faults' \in 0..MaxFaults
<1>1. link \in Links /\ faults \in 0..MaxFaults
  BY DEF TypeOK
<1>2. CASE WorkerBreaks
  <2>1. Tell("down") \in {"none", "up", "down"}
    BY <1>1 DEF Tell, Links
  <2>2. link' = [link EXCEPT !.comfy = FALSE, !.news = Tell("down")] /\ faults' = faults + 1
    BY <1>2 DEF WorkerBreaks
  <2>3. link' \in Links /\ link'.open = link.open
    BY <1>1, <2>1, <2>2 DEF Links
  <2>4. faults' \in 0..MaxFaults
    BY <1>1, <1>2, <2>2, OutputsAssumption DEF WorkerBreaks
  <2> QED
    BY <1>2, <2>3, <2>4 DEF WorkerBreaks
<1>3. CASE WorkerReturns
  <2>1. Tell("up") \in {"none", "up", "down"}
    BY <1>1 DEF Tell, Links
  <2>2. link' = [link EXCEPT !.comfy = TRUE, !.news = Tell("up")]
    BY <1>3 DEF WorkerReturns
  <2>3. link' \in Links /\ link'.open = link.open
    BY <1>1, <2>1, <2>2 DEF Links
  <2> QED
    BY <1>1, <1>3, <2>3 DEF WorkerReturns, bounds
<1>4. CASE OnConnection
  <2>1. link' \in Links /\ link'.open = link.open
    BY <1>1, <1>4 DEF OnConnection, Links
  <2> QED
    BY <1>1, <1>4, <2>1 DEF OnConnection, bounds
<1> QED
  BY <1>2, <1>3, <1>4 DEF Connection

(* What is on its way is gone. *)
LEMMA EventsDropped ==
  ASSUME TypeOK, Disconnect \/ Lag
  PROVE  /\ UNCHANGED <<server, client, faults>>
         /\ chan' = <<>> /\ link' \in Links /\ drops' \in 0..MaxDrops
         /\ missed' = missed \cup {p \in Prompts : \E e \in Range(chan) : About(e, p)}
<1>1. link \in Links /\ drops \in 0..MaxDrops
  BY DEF TypeOK
<1>2. link' \in Links
  BY <1>1 DEF Disconnect, Lag, Links
<1>3. drops' \in 0..MaxDrops
  BY <1>1, OutputsAssumption DEF Disconnect, Lag
<1> QED
  BY <1>2, <1>3 DEF Disconnect, Lag

LEMMA StreamType ==
  ASSUME TypeOK, Clear \/ Disconnect \/ Lag \/ Reconnect \/ Connection \/ \E p \in Prompts : Age(p)
  PROVE  TypeOK'
<1> USE TypeFacts, EventTypes
<1> USE DEF server, stream, client, view, collected, outcome, bounds
<1>1. ASSUME Clear PROVE TypeOK'
  <2>1. chan' \in Seq(Event)
    <3>1. <<[kind |-> "cleared"]>> \in Seq(Event)
      OBVIOUS
    <3> QED
      BY <1>1, <3>1, EmitType DEF Clear
  <2>2. missed' \subseteq Prompts /\ faults' \in 0..MaxFaults
    BY <1>1, OutputsAssumption DEF Clear, TypeOK
  <2>3. srv' \in [Prompts -> {"none", "held", "running", "ended", "gone"}]
    BY <1>1 DEF Clear, TypeOK
  <2> QED
    BY <1>1, <2>1, <2>2, <2>3 DEF Clear, TypeOK
<1>2. ASSUME Disconnect \/ Lag PROVE TypeOK'
  <2>1. missed' \subseteq Prompts
    BY <1>2, EventsDropped DEF TypeOK
  <2>2. chan' \in Seq(Event)
    BY <1>2, EventsDropped, EmptySeq
  <2> QED
    BY <1>2, <2>1, <2>2, EventsDropped DEF TypeOK
<1>3. ASSUME Reconnect PROVE TypeOK'
  <2>1. chan' \in Seq(Event)
    <3>1. InQueue \in SUBSET Prompts /\ {p \in InQueue : srv[p] # "held"} \in SUBSET Prompts
      BY DEF InQueue
    <3>2. /\ ForEach("queued", InQueue) \in Seq(Event)
          /\ ForEach("preview", {p \in InQueue : srv[p] # "held"}) \in Seq(Event)
      BY <3>1, ForEachType
    <3> QED
      BY <1>3, <3>2, ConcatProperties DEF Reconnect
  <2>2. /\ missed' \subseteq Prompts /\ link' \in Links
        /\ activity' \in [Prompts -> {"none", "recent", "aged", "reset"}]
    BY <1>3 DEF Reconnect, Links, TypeOK
  <2> QED
    BY <1>3, <2>1, <2>2 DEF Reconnect, TypeOK
<1>4. ASSUME NEW p \in Prompts, Age(p) PROVE TypeOK'
  <2>1. activity' \in [Prompts -> {"none", "recent", "aged", "reset"}] /\ aged' \subseteq Prompts
    BY <1>4 DEF Age, TypeOK
  <2> QED
    BY <1>4, <2>1 DEF Age, TypeOK
<1>5. ASSUME Connection PROVE TypeOK'
  BY <1>5, NewsOnly DEF TypeOK
<1> QED
  BY <1>1, <1>2, <1>3, <1>4, <1>5

(* The event that is handled. *)
LEMMA TakenFacts ==
  ASSUME TypeOK, chan # <<>>, Taken
  PROVE  /\ chan' \in Seq(Event) /\ Head(chan) \in Event
         /\ UNCHANGED <<srv, unshielded, answered, cache, link, drops, faults>>
BY TypeFacts, FirstTaken DEF Taken, server, bounds

LEMMA HandlerType ==
  ASSUME TypeOK, Handles
  PROVE  TypeOK'
<1> USE TypeFacts
<1> USE DEF view, collected, outcome
<1>0. /\ chan # <<>> /\ Taken /\ chan' \in Seq(Event) /\ Head(chan) \in Event
      /\ UNCHANGED <<srv, unshielded, answered, cache, link, drops, faults>>
      /\ Head(chan).kind # "cleared" => Head(chan).prompt \in Prompts
  <2>1. chan # <<>> /\ Taken
    BY DEF Handles, OnQueued, OnExecuting, OnPreview, OnOutput, OnDone, OnError, OnCleared, NextIs
  <2> QED
    BY <2>1, TakenFacts, EventTypes
<1> DEFINE p == Head(chan).prompt
<1>1. ASSUME OnQueued PROVE TypeOK'
  <2>1. p \in Prompts
    BY <1>0, <1>1 DEF OnQueued, NextIs
  <2> HIDE DEF p
  <2>2. /\ pending' \in Seq(Prompts) /\ Distinct(pending')
        /\ Range(pending') = Range(pending) \cup {p}
        /\ added' \in [Prompts -> Nat] /\ aged' \subseteq Prompts
    BY <1>1, <2>1, EnqueueType DEF OnQueued, p
  <2>3. IsInjective(pending')
    BY <2>2, RangeIsElems
  <2> QED
    BY <1>0, <1>1, <2>2, <2>3 DEF OnQueued, TypeOK
<1>2. ASSUME OnExecuting PROVE TypeOK'
  <2>1. p \in Prompts
    BY <1>0, <1>2 DEF OnExecuting, NextIs
  <2> HIDE DEF p
  <2>2. CASE Tracked(p)
    <3>1. Heard(p) /\ SetActivePrompt(p)
      BY <1>2, <2>2 DEF OnExecuting, p
    <3>2. /\ activity' \in [Prompts -> {"none", "recent", "aged", "reset"}]
          /\ tick' \in [Ticks -> Reconciler]
      BY <2>1, <3>1, HeardType
    <3>3. active' = p /\ preview' \in Prompts \cup {None}
      BY <3>1 DEF SetActivePrompt, TypeOK
    <3> QED
      BY <1>0, <1>2, <2>1, <2>2, <3>2, <3>3 DEF OnExecuting, Tracked, TypeOK
  <2>3. CASE ~Tracked(p)
    BY <1>0, <1>2, <2>3 DEF OnExecuting, TypeOK, p
  <2> QED
    BY <2>2, <2>3
<1>3. ASSUME OnPreview PROVE TypeOK'
  <2>1. p \in Prompts
    BY <1>0, <1>3 DEF OnPreview, NextIs
  <2>2. previewing' \subseteq Prompts
    BY <1>3, <2>1 DEF OnPreview, TypeOK
  <2> QED
    BY <1>0, <1>3, <2>2 DEF OnPreview, TypeOK
<1>4. ASSUME OnOutput PROVE TypeOK'
  <2>1. p \in Prompts /\ Head(chan).output \in Outputs
    BY <1>0, <1>4, EventTypes DEF OnOutput, NextIs
  <2>2. fetching' \in [Prompts -> SUBSET Outputs] /\ registered' \in [Prompts -> SUBSET Outputs]
    <3>1. fetching \in [Prompts -> SUBSET Outputs] /\ registered \in [Prompts -> SUBSET Outputs]
      BY DEF TypeOK
    <3> QED
      BY <1>4, <2>1, <3>1 DEF OnOutput
  <2> QED
    BY <1>0, <1>4, <2>2 DEF OnOutput, TypeOK
<1>5. ASSUME OnDone PROVE TypeOK'
  <2>1. p \in Prompts
    BY <1>0, <1>5 DEF OnDone, NextIs
  <2> HIDE DEF p
  <2>2. CASE ~Tracked(p)
    BY <1>0, <1>5, <2>2 DEF OnDone, TypeOK, p
  <2>3. CASE CloseNow(p) /\ UNCHANGED tick
    <3>1. /\ ShownOK(pending', active', preview')
          /\ activity' \in [Prompts -> {"none", "recent", "aged", "reset"}]
          /\ images' \in [Prompts -> SUBSET Outputs]
          /\ shown' \in [Prompts -> Nat] /\ gallery' \in [Prompts -> SUBSET Outputs]
      BY <2>1, <2>3, CompleteType DEF CloseNow
    <3>2. closing' \in [Prompts -> Handler]
      BY <2>3 DEF CloseNow, Handler, TypeOK
    <3> QED
      BY <1>0, <1>5, <2>3, <3>1, <3>2 DEF OnDone, ShownOK, TypeOK
  <2>4. CASE /\ closing' = [closing EXCEPT ![p] = [pc |-> "await", waits |-> registered[p]]]
             /\ Heard(p)
             /\ UNCHANGED <<pending, active, preview, images, shown, gallery>>
    <3>1. closing' \in [Prompts -> Handler]
      BY <2>1, <2>4 DEF Handler, TypeOK
    <3>2. /\ activity' \in [Prompts -> {"none", "recent", "aged", "reset"}]
          /\ tick' \in [Ticks -> Reconciler]
      BY <2>1, <2>4, HeardType
    <3> QED
      BY <1>0, <1>5, <2>4, <3>1, <3>2 DEF OnDone, TypeOK
  <2> QED
    BY <1>5, <2>2, <2>3, <2>4 DEF OnDone, p
<1>6. ASSUME OnError PROVE TypeOK'
  <2>1. p \in Prompts
    BY <1>0, <1>6 DEF OnError, NextIs
  <2> HIDE DEF p
  <2>2. /\ pending' = Others(p)
        /\ Others(p) \in Seq(Prompts) /\ Distinct(Others(p))
        /\ Range(Others(p)) = Range(pending) \ {p}
    BY <1>6, OthersType DEF OnError, RemovePrompt, p
  <2>3. IsInjective(pending')
    BY <2>2, RangeIsElems
  <2>4. /\ active' \in Prompts \cup {None} /\ preview' \in Prompts \cup {None}
        /\ active' # None => active' \in Range(pending')
    BY <1>6, <2>2 DEF OnError, RemovePrompt, TypeOK, p
  <2>5. /\ images' \in [Prompts -> SUBSET Outputs] /\ registered' \in [Prompts -> SUBSET Outputs]
        /\ activity' \in [Prompts -> {"none", "recent", "aged", "reset"}]
    BY <1>6 DEF OnError, TypeOK
  <2> QED
    BY <1>0, <1>6, <2>2, <2>3, <2>4, <2>5 DEF OnError, TypeOK
<1>7. ASSUME OnCleared PROVE TypeOK'
  <2>1. /\ pending' = <<>> /\ active' = None /\ preview' = None
        /\ activity' \in [Prompts -> {"none", "recent", "aged", "reset"}]
    BY <1>7 DEF OnCleared, CancelAll
  <2>2. pending' \in Seq(Prompts) /\ IsInjective(pending')
    BY <2>1 DEF IsInjective
  <2> QED
    BY <1>0, <1>7, <2>1, <2>2 DEF OnCleared, TypeOK
<1> QED
  BY <1>1, <1>2, <1>3, <1>4, <1>5, <1>6, <1>7 DEF Handles

LEMMA BrowserType ==
  ASSUME TypeOK, NEW p \in Prompts,
         \/ Track(p) \/ PreviewFetched(p) \/ CloseAfterFetches(p) \/ CloseAfterRecovery(p)
         \/ \E o \in Outputs : OutputFetched(p, o) \/ OutputFetchFails(p, o)
  PROVE  TypeOK'
<1> USE TypeFacts
<1> USE DEF server, stream, view, collected, outcome, bounds
<1>1. ASSUME Track(p) PROVE TypeOK'
  <2>1. /\ pending' \in Seq(Prompts) /\ Distinct(pending')
        /\ Range(pending') = Range(pending) \cup {p}
        /\ added' \in [Prompts -> Nat] /\ aged' \subseteq Prompts
    BY <1>1, EnqueueType DEF Track
  <2>2. IsInjective(pending')
    BY <2>1, RangeIsElems
  <2>3. answered' \in [Prompts -> {"none", "sent", "tracked"}]
    BY <1>1 DEF Track, TypeOK
  <2> QED
    BY <1>1, <2>1, <2>2, <2>3 DEF Track, TypeOK
<1>2. ASSUME PreviewFetched(p) PROVE TypeOK'
  <2>1. previewing' \subseteq Prompts /\ preview' \in Prompts \cup {None}
    BY <1>2 DEF PreviewFetched, TypeOK
  <2> QED
    BY <1>2, <2>1 DEF PreviewFetched, TypeOK
<1>3. ASSUME CloseAfterFetches(p) PROVE TypeOK'
  <2>1. CloseNow(p) /\ Settled(p, closing[p].waits)
    BY <1>3 DEF CloseAfterFetches
  <2>2. /\ ShownOK(pending', active', preview')
        /\ activity' \in [Prompts -> {"none", "recent", "aged", "reset"}]
        /\ images' \in [Prompts -> SUBSET Outputs]
        /\ shown' \in [Prompts -> Nat] /\ gallery' \in [Prompts -> SUBSET Outputs]
    BY <2>1, CompleteType DEF CloseNow
  <2>3. closing' \in [Prompts -> Handler]
    BY <2>1 DEF CloseNow, Handler, TypeOK
  <2>4. faults' \in 0..MaxFaults /\ missed' \subseteq Prompts
    BY <2>1, SettledType
  <2>5. registered' \in [Prompts -> SUBSET Outputs]
    BY <1>3 DEF CloseAfterFetches, TypeOK
  <2> QED
    BY <1>3, <2>2, <2>3, <2>4, <2>5 DEF CloseAfterFetches, ShownOK, TypeOK
<1>4. ASSUME CloseAfterRecovery(p) PROVE TypeOK'
  <2>1. PICK imgs \in SUBSET OutputsOf[p] : Recovered(p, imgs) /\ Finalize(p, imgs)
    BY <1>4 DEF CloseAfterRecovery
  <2>2. faults' \in 0..MaxFaults /\ missed' \subseteq Prompts
    BY <2>1, RecoveredType
  <2>3. shown' \in [Prompts -> Nat] /\ gallery' \in [Prompts -> SUBSET Outputs]
    BY <2>1, FinalizeType, OutputsFacts
  <2>4. closing' \in [Prompts -> Handler]
    BY <1>4 DEF CloseAfterRecovery, Resting, Handler, TypeOK
  <2> QED
    BY <1>4, <2>2, <2>3, <2>4 DEF CloseAfterRecovery, TypeOK
<1>5. ASSUME NEW o \in Outputs, OutputFetched(p, o) PROVE TypeOK'
  <2>1. fetching' \in [Prompts -> SUBSET Outputs] /\ images' \in [Prompts -> SUBSET Outputs]
    <3>1. fetching \in [Prompts -> SUBSET Outputs] /\ images \in [Prompts -> SUBSET Outputs]
      BY DEF TypeOK
    <3> QED
      BY <1>5, <3>1 DEF OutputFetched
  <2> QED
    BY <1>5, <2>1 DEF OutputFetched, TypeOK
<1>6. ASSUME NEW o \in Outputs, OutputFetchFails(p, o) PROVE TypeOK'
  <2>1. fetching' \in [Prompts -> SUBSET Outputs]
    BY <1>6 DEF OutputFetchFails, TypeOK
  <2>2. faults' \in 0..MaxFaults /\ missed' \subseteq Prompts
    BY <1>6, OutputsAssumption DEF OutputFetchFails, TypeOK
  <2> QED
    BY <1>6, <2>1, <2>2 DEF OutputFetchFails, TypeOK
<1> QED
  BY <1>1, <1>2, <1>3, <1>4, <1>5, <1>6

(* A callback that has reached its loop has entries left. *)
Busy(t) == t.pc \in {"loop", "await", "recover"} => t.todo # <<>>

TypeInv == TypeOK /\ \A r \in Ticks : Busy(tick[r])

(* The prompt a callback is at. *)
LEMMA EntryType ==
  ASSUME TypeInv, NEW r \in Ticks, tick[r].pc \in {"loop", "await", "recover"}
  PROVE  Head(tick[r].todo) \in Prompts
<1>1. tick[r].todo \in Seq(Prompts) /\ tick[r].todo # <<>>
  BY TypeFacts DEF TypeInv, Reconciler, Busy
<1> QED
  BY <1>1, FirstTaken

LEMMA GuardType == \A t, p : GuardOf(t, p) \in Guards
BY DEF GuardOf, Guards

LEMMA ReconcilerType ==
  ASSUME TypeInv, NEW r \in Ticks, Reconciles(r)
  PROVE  TypeOK'
<1> USE TypeFacts DEF TypeInv
<1> USE DEF server, stream, view, collected, outcome, bounds
<1>0. tick \in [Ticks -> Reconciler] /\ tick[r] \in Reconciler
  BY DEF TypeOK
<1>1. ASSUME TickStarts(r) PROVE TypeOK'
  <2>1. [Sleeping EXCEPT !.pc = "query"] \in Reconciler
    <3>1. Sleeping \in Reconciler
      BY AtRest
    <3> QED
      BY <3>1 DEF Reconciler
  <2>2. tick' \in [Ticks -> Reconciler]
    BY <1>0, <1>1, <2>1 DEF TickStarts
  <2> QED
    BY <1>1, <2>2 DEF TickStarts, TypeOK
<1>2. ASSUME GetQueue(r) PROVE TypeOK'
  <2> DEFINE snap == {p \in InQueue : srv[p] = "held" => p \notin unshielded}
             t == [tick[r] EXCEPT !.pc = "answered", !.old = Range(pending),
                                  !.silent = Range(pending), !.snap = snap]
  <2>1. snap \subseteq Prompts
    BY DEF InQueue
  <2>2. tick' = [tick EXCEPT ![r] = t]
    BY <1>0, <1>2 DEF GetQueue
  <2> HIDE DEF snap
  <2>3. t \in Reconciler
    BY <1>0, <2>1 DEF Reconciler
  <2> HIDE DEF t
  <2>4. tick' \in [Ticks -> Reconciler]
    BY <1>0, <2>2, <2>3
  <2> QED
    BY <1>2, <2>4 DEF GetQueue, TypeOK
<1>3. ASSUME QueueKnown(r) PROVE TypeOK'
  <2> DEFINE t == IF pending = <<>> THEN Sleeping ELSE InLoop(tick[r])
  <2>1. tick' = [tick EXCEPT ![r] = t]
    BY <1>3 DEF QueueKnown
  <2>2. Sleeping \in Reconciler
    BY AtRest
  <2>3. InLoop(tick[r]) \in Reconciler
    BY <1>0 DEF InLoop, Reconciler
  <2>4. t \in Reconciler
    BY <2>2, <2>3
  <2> HIDE DEF t
  <2>5. tick' \in [Ticks -> Reconciler]
    BY <1>0, <2>1, <2>4
  <2>6. missed' \subseteq Prompts
    BY <1>3 DEF QueueKnown, TypeOK
  <2> QED
    BY <1>3, <2>5, <2>6 DEF QueueKnown, TypeOK
<1>3a. ASSUME QueueLate(r) PROVE TypeOK'
  <2> DEFINE t == IF pending = <<>> THEN Sleeping ELSE InLoopLate(tick[r])
  <2>1. tick' = [tick EXCEPT ![r] = t]
    BY <1>3a DEF QueueLate
  <2>2. Sleeping \in Reconciler
    BY AtRest
  <2>3. InLoopLate(tick[r]) \in Reconciler
    BY <1>0 DEF InLoopLate, Reconciler
  <2>4. t \in Reconciler
    BY <2>2, <2>3
  <2> HIDE DEF t
  <2>5. tick' \in [Ticks -> Reconciler]
    BY <1>0, <2>1, <2>4
  <2>6. missed' \subseteq Prompts /\ faults' \in 0..MaxFaults
    BY <1>3a, OutputsAssumption DEF QueueLate, TypeOK
  <2> QED
    BY <1>3a, <2>5, <2>6 DEF QueueLate, TypeOK
<1>4. ASSUME TickSkips(r) PROVE TypeOK'
  <2>1. tick' \in [Ticks -> Reconciler]
    BY <1>0, <1>4, GoOnType DEF TickSkips
  <2> QED
    BY <1>4, <2>1 DEF TickSkips, TypeOK
<1>5. ASSUME NEW p \in Prompts, NEW guard \in Guards, GiveUpNow(r, p, guard)
      PROVE  /\ ShownOK(pending', active', preview')
             /\ activity' \in [Prompts -> {"none", "recent", "aged", "reset"}]
             /\ images' \in [Prompts -> SUBSET Outputs]
             /\ shown' \in [Prompts -> Nat] /\ gallery' \in [Prompts -> SUBSET Outputs]
             /\ tick' \in [Ticks -> Reconciler]
  <2>1. Complete(p)
    BY <1>5 DEF GiveUpNow
  <2>2. [tick[r] EXCEPT !.pc = "recover", !.waits = {}, !.guard = guard] \in Reconciler
    BY <1>0 DEF Reconciler
  <2>3. tick' \in [Ticks -> Reconciler]
    BY <1>0, <1>5, <2>2, GoOnType DEF GiveUpNow
  <2> QED
    BY <2>1, <2>3, CompleteType
<1> DEFINE p == Head(tick[r].todo)
<1>6. ASSUME TickCompletes(r) PROVE TypeOK'
  <2>1. p \in Prompts /\ GiveUpNow(r, p, GuardOf(tick[r], p)) /\ GuardOf(tick[r], p) \in Guards
    BY <1>6, EntryType, GuardType DEF TickCompletes
  <2> HIDE DEF p
  <2>2. /\ ShownOK(pending', active', preview')
        /\ activity' \in [Prompts -> {"none", "recent", "aged", "reset"}]
        /\ images' \in [Prompts -> SUBSET Outputs]
        /\ shown' \in [Prompts -> Nat] /\ gallery' \in [Prompts -> SUBSET Outputs]
        /\ tick' \in [Ticks -> Reconciler]
    BY <1>5, <2>1
  <2> QED
    BY <1>6, <2>2 DEF TickCompletes, ShownOK, TypeOK
<1>7. ASSUME TickWaits(r) PROVE TypeOK'
  <2> DEFINE t == [tick[r] EXCEPT !.pc = "await", !.waits = registered[p], !.guard = GuardOf(tick[r], p)]
  <2>1. p \in Prompts /\ GuardOf(tick[r], p) \in Guards
    BY <1>7, EntryType, GuardType DEF TickWaits
  <2>2. tick' = [tick EXCEPT ![r] = t]
    BY <1>0, <1>7 DEF TickWaits
  <2> HIDE DEF p
  <2>3. registered[p] \in SUBSET Outputs
    BY <2>1 DEF TypeOK
  <2>4. t \in Reconciler
    BY <1>0, <2>1, <2>3 DEF Reconciler
  <2> HIDE DEF t
  <2>5. tick' \in [Ticks -> Reconciler]
    BY <1>0, <2>2, <2>4
  <2> QED
    BY <1>7, <2>5 DEF TickWaits, TypeOK
<1>8. ASSUME TickAfterFetches(r) PROVE TypeOK'
  <2>1. /\ p \in Prompts /\ GiveUpNow(r, p, tick[r].guard) /\ tick[r].guard \in Guards
        /\ Settled(p, tick[r].waits) /\ registered' = [registered EXCEPT ![p] = {}]
    BY <1>0, <1>8, EntryType DEF TickAfterFetches, Reconciler
  <2> HIDE DEF p
  <2>2. /\ ShownOK(pending', active', preview')
        /\ activity' \in [Prompts -> {"none", "recent", "aged", "reset"}]
        /\ images' \in [Prompts -> SUBSET Outputs]
        /\ shown' \in [Prompts -> Nat] /\ gallery' \in [Prompts -> SUBSET Outputs]
        /\ tick' \in [Ticks -> Reconciler]
    BY <1>5, <2>1
  <2>3. faults' \in 0..MaxFaults /\ missed' \subseteq Prompts
    BY <2>1, SettledType
  <2>4. registered' \in [Prompts -> SUBSET Outputs]
    BY <2>1 DEF TypeOK
  <2> QED
    BY <1>8, <2>2, <2>3, <2>4 DEF TickAfterFetches, ShownOK, TypeOK
<1>9. ASSUME TickAfterRecovery(r) PROVE TypeOK'
  <2>1. p \in Prompts /\ tick[r].guard \in Guards
    BY <1>0, <1>9, EntryType DEF TickAfterRecovery, Reconciler
  <2>2. PICK imgs \in SUBSET OutputsOf[p] :
          /\ Recovered(p, imgs) /\ Finalize(p, imgs)
          /\ lost' = [lost EXCEPT ![p] = IF imgs = {} THEN tick[r].guard ELSE @]
    BY <1>9 DEF TickAfterRecovery
  <2> HIDE DEF p
  <2>3. faults' \in 0..MaxFaults /\ missed' \subseteq Prompts
    BY <2>1, <2>2, RecoveredType
  <2>4. shown' \in [Prompts -> Nat] /\ gallery' \in [Prompts -> SUBSET Outputs]
    BY <2>1, <2>2, FinalizeType, OutputsFacts
  <2>5. lost' \in [Prompts -> {"no"} \cup Guards]
    BY <2>1, <2>2 DEF TypeOK
  <2>6. tick' \in [Ticks -> Reconciler]
    BY <1>0, <1>9, GoOnType DEF TickAfterRecovery
  <2> QED
    BY <1>9, <2>3, <2>4, <2>5, <2>6 DEF TickAfterRecovery, TypeOK
<1> QED
  BY <1>1, <1>2, <1>3, <1>3a, <1>4, <1>6, <1>7, <1>8, <1>9 DEF Reconciles

LEMMA TailLeft ==
  ASSUME NEW V, NEW s \in Seq(V), ~(Len(s) <= 1)
  PROVE  Tail(s) # <<>>
<1>1. s # <<>>
  OBVIOUS
<1>2. Len(Tail(s)) = Len(s) - 1 /\ Len(s) \in Nat
  BY <1>1, FirstTaken
<1>3. \A n \in Nat : ~(n <= 1) => n - 1 # 0
  OBVIOUS
<1>3a. Len(Tail(s)) # 0
  BY <1>2, <1>3, Zenon
<1>4. Len(<<>>) = 0
  BY EmptySeq
<1> QED
  BY <1>3a, <1>4

LEMMA GoOnBusy ==
  ASSUME NEW t \in Reconciler
  PROVE  Busy(GoOn(t))
<1>1. CASE Len(t.todo) <= 1
  BY <1>1 DEF GoOn, Busy, Sleeping
<1>2. CASE ~(Len(t.todo) <= 1)
  <2>1. t.todo \in Seq(Prompts)
    BY DEF Reconciler
  <2>2. Tail(t.todo) # <<>>
    BY <1>2, <2>1, TailLeft
  <2>3. GoOn(t).todo = Tail(t.todo)
    BY <1>2, <2>1 DEF GoOn, Reconciler
  <2> QED
    BY <2>2, <2>3 DEF Busy
<1> QED
  BY <1>1, <1>2

LEMMA ReconcilerBusy ==
  ASSUME TypeInv, NEW r \in Ticks, Reconciles(r)
  PROVE  \A q \in Ticks : Busy(tick'[q])
<1>0. tick \in [Ticks -> Reconciler] /\ tick[r] \in Reconciler /\ \A q \in Ticks : Busy(tick[q])
  BY DEF TypeInv, TypeOK
<1>1. ASSUME NEW t, Busy(t), tick' = [tick EXCEPT ![r] = t]
      PROVE  \A q \in Ticks : Busy(tick'[q])
  BY <1>0, <1>1
<1>2. Busy(GoOn(tick[r]))
  BY <1>0, GoOnBusy
<1>3. CASE TickStarts(r)
  <2>1. tick' = [tick EXCEPT ![r] = [Sleeping EXCEPT !.pc = "query"]]
    BY <1>3 DEF TickStarts
  <2>2. Busy([Sleeping EXCEPT !.pc = "query"])
    BY DEF Busy, Sleeping
  <2> QED
    BY <1>1, <2>1, <2>2
<1>4. CASE GetQueue(r)
  <2>1. tick'[r].pc = "answered" /\ \A q \in Ticks : q # r => tick'[q] = tick[q]
    BY <1>0, <1>4 DEF GetQueue, Reconciler
  <2> QED
    BY <1>0, <2>1 DEF Busy
<1>5. CASE QueueKnown(r)
  <2>1. tick' = [tick EXCEPT ![r] = IF pending = <<>> THEN Sleeping ELSE InLoop(tick[r])]
    BY <1>5 DEF QueueKnown
  <2>2. Busy(Sleeping)
    BY DEF Busy, Sleeping
  <2>3. pending # <<>> => Busy(InLoop(tick[r]))
    BY <1>0 DEF Busy, InLoop, Reconciler
  <2> QED
    BY <1>1, <2>1, <2>2, <2>3
<1>5a. CASE QueueLate(r)
  <2>1. tick' = [tick EXCEPT ![r] = IF pending = <<>> THEN Sleeping ELSE InLoopLate(tick[r])]
    BY <1>5a DEF QueueLate
  <2>2. Busy(Sleeping)
    BY DEF Busy, Sleeping
  <2>3. pending # <<>> => Busy(InLoopLate(tick[r]))
    BY <1>0 DEF Busy, InLoopLate, Reconciler
  <2> QED
    BY <1>1, <2>1, <2>2, <2>3
<1>6. CASE TickSkips(r)
  BY <1>1, <1>2, <1>6 DEF TickSkips
<1>7. ASSUME NEW p, NEW guard, GiveUpNow(r, p, guard), tick[r].pc \in {"loop", "await"}
      PROVE  \A q \in Ticks : Busy(tick'[q])
  <2> DEFINE t == [tick[r] EXCEPT !.pc = "recover", !.waits = {}, !.guard = guard]
  <2>1. tick' = [tick EXCEPT ![r] = IF NothingToShow(p) THEN t ELSE GoOn(tick[r])]
    BY <1>7 DEF GiveUpNow
  <2>2. Busy(t)
    BY <1>0, <1>7 DEF Busy, Reconciler
  <2> HIDE DEF t
  <2> QED
    BY <1>1, <1>2, <2>1, <2>2
<1>8. CASE TickCompletes(r)
  BY <1>7, <1>8 DEF TickCompletes
<1>9. CASE TickWaits(r)
  <2>1. /\ tick'[r].todo = tick[r].todo /\ tick[r].pc = "loop"
        /\ \A q \in Ticks : q # r => tick'[q] = tick[q]
    BY <1>0, <1>9 DEF TickWaits, Reconciler
  <2> QED
    BY <1>0, <2>1 DEF Busy
<1>10. CASE TickAfterFetches(r)
  BY <1>7, <1>10 DEF TickAfterFetches
<1>11. CASE TickAfterRecovery(r)
  BY <1>1, <1>2, <1>11 DEF TickAfterRecovery
<1> QED
  BY <1>3, <1>4, <1>5, <1>5a, <1>6, <1>8, <1>9, <1>10, <1>11 DEF Reconciles

(* An event leaves every callback where it is. *)
LEMMA TickHeard ==
  ASSUME TypeOK, NEW p, Heard(p), NEW r \in Ticks
  PROVE  /\ tick'[r].pc = tick[r].pc /\ tick'[r].todo = tick[r].todo
         /\ tick'[r].guard = tick[r].guard /\ tick'[r].waits = tick[r].waits
         /\ tick'[r].old = tick[r].old /\ tick'[r].snap = tick[r].snap
         /\ tick'[r].late = tick[r].late /\ tick'[r].silent \subseteq tick[r].silent
<1>1. tick[r] \in Reconciler
  BY DEF TypeOK
<1> QED
  BY <1>1 DEF Heard, Reconciler

(* Only the callbacks of the interval and the events of the stream change  *)
(* where a callback is.                                                    *)
LEMMA TickKept ==
  ASSUME [Next]_vars
  PROVE  UNCHANGED tick \/ (\E p : Heard(p)) \/ \E r \in Ticks : Reconciles(r)
<1> USE DEF client, server, stream
<1>1. CASE ServerWorks
  BY <1>1 DEF ServerWorks, Run, End, Forget, Output
<1>2. CASE Handles
  BY <1>2 DEF Handles, OnQueued, OnExecuting, OnPreview, OnOutput, OnDone, OnError, OnCleared
<1>3. CASE Clear \/ Disconnect \/ Lag \/ Reconnect \/ Connection
  BY <1>3 DEF Clear, Disconnect, Lag, Reconnect, Connection, WorkerBreaks, WorkerReturns, OnConnection
<1>4. CASE \E p \in Prompts : \/ Accept(p) \/ Unshield(p) \/ Break(p) \/ Age(p) \/ Track(p)
                              \/ PreviewFetched(p) \/ Closes(p)
                              \/ \E o \in Outputs : OutputFetched(p, o) \/ OutputFetchFails(p, o)
  BY <1>4 DEF Accept, Unshield, Break, Age, Track, PreviewFetched, Closes, CloseAfterFetches,
              CloseAfterRecovery, OutputFetched, OutputFetchFails
<1>5. CASE UNCHANGED vars
  BY <1>5 DEF vars
<1> QED
  BY <1>1, <1>2, <1>3, <1>4, <1>5 DEF Next

LEMMA NextTypeInv ==
  ASSUME TypeInv, [Next]_vars
  PROVE  TypeInv'
<1>1. TypeOK'
  <2>1. CASE UNCHANGED vars
    BY <2>1 DEF vars, TypeInv, TypeOK
  <2> QED
    BY <2>1, ServerType, StreamType, HandlerType, BrowserType, ReconcilerType
       DEF Next, ServerWorks, Closes, TypeInv
<1>2. \A r \in Ticks : Busy(tick'[r])
  <2>1. CASE UNCHANGED tick
    BY <2>1 DEF TypeInv
  <2>2. CASE \E p : Heard(p)
    BY <2>2, TickHeard DEF TypeInv, Busy
  <2> QED
    BY <2>1, <2>2, TickKept, ReconcilerBusy
<1> QED
  BY <1>1, <1>2 DEF TypeInv

(* Types: a prompt is tracked at most once, and an active one is tracked. *)
THEOREM TypeCorrect == Spec => []TypeOK
<1>1. Init => TypeInv
  BY InitType DEF TypeInv, Busy, Init, Sleeping
<1>2. TypeInv /\ [Next]_vars => TypeInv'
  BY NextTypeInv
<1>3. TypeInv => TypeOK
  BY DEF TypeInv
<1> QED
  BY <1>1, <1>2, <1>3, PTL DEF Spec

(* A frame is shown only while its prompt is tracked, however late it      *)
(* comes.                                                                  *)
THEOREM FramesOfTrackedPrompts == Spec => FramesAreLive
<1>1. [Next]_vars => [preview' \notin {preview, None} => Tracked(preview')]_vars
  <2> USE DEF client, server, stream, view
  <2>1. CASE ServerWorks
    BY <2>1 DEF ServerWorks, Run, End, Forget, Output
  <2>2. CASE Handles
    BY <2>2 DEF Handles, OnQueued, OnExecuting, OnPreview, OnOutput, OnDone, OnError, OnCleared,
                SetActivePrompt, CloseNow, Complete, CompletePrompt, RemovePrompt, CancelAll
  <2>3. CASE Clear \/ Disconnect \/ Lag \/ Reconnect \/ Connection
    BY <2>3 DEF Clear, Disconnect, Lag, Reconnect, Connection, WorkerBreaks, WorkerReturns, OnConnection
  <2>4. CASE \E p \in Prompts : \/ Accept(p) \/ Unshield(p) \/ Break(p) \/ Age(p) \/ Track(p)
                                \/ PreviewFetched(p) \/ Closes(p)
                                \/ \E o \in Outputs : OutputFetched(p, o) \/ OutputFetchFails(p, o)
    BY <2>4 DEF Accept, Unshield, Break, Age, Track, PreviewFetched, Wanted, Closes,
                CloseAfterFetches, CloseNow, Complete, CompletePrompt, CloseAfterRecovery,
                OutputFetched, OutputFetchFails
  <2>5. CASE \E r \in Ticks : Reconciles(r)
    BY <2>5 DEF Reconciles, TickStarts, GetQueue, QueueKnown, QueueLate, TickSkips, TickCompletes,
                TickWaits, TickAfterFetches, TickAfterRecovery, GiveUpNow, Complete, CompletePrompt
  <2>6. CASE UNCHANGED vars
    BY <2>6 DEF vars
  <2> QED
    BY <2>1, <2>2, <2>3, <2>4, <2>5, <2>6 DEF Next
<1> QED
  BY <1>1, PTL DEF Spec, FramesAreLive

-----------------------------------------------------------------------------
(* Who has to put the images of a prompt on show. *)

One(b) == IF b THEN 1 ELSE 0

(* The callbacks that wait for what is recovered of a prompt. *)
Recovering(p) == {r \in Ticks : tick[r].pc = "recover" /\ Head(tick[r].todo) = p}

(* A prompt that was added is tracked until one of the handlers takes it,  *)
(* who then has to put its images on show, or waits to recover some.       *)
OnceFor(p) ==
  shown[p] + One(Tracked(p)) + One(closing[p].pc = "recover") + Cardinality(Recovering(p))
    <= added[p]

OnceInv == \A p \in Prompts : OnceFor(p)

LEMMA RecoveringFinite ==
  /\ \A p : IsFiniteSet(Recovering(p)) /\ Cardinality(Recovering(p)) \in Nat
  /\ \A p, r : /\ Cardinality(Recovering(p) \cup {r}) <= Cardinality(Recovering(p)) + 1
               /\ Cardinality(Recovering(p) \ {r}) <= Cardinality(Recovering(p))
               /\ r \in Recovering(p) =>
                    Cardinality(Recovering(p) \ {r}) = Cardinality(Recovering(p)) - 1
<1>1. ASSUME NEW p PROVE IsFiniteSet(Recovering(p)) /\ Cardinality(Recovering(p)) \in Nat
  <2>1. Recovering(p) \subseteq Ticks
    BY DEF Recovering
  <2> QED
    BY <2>1, OutputsAssumption, FS_Subset, FS_CardinalityType
<1>2. ASSUME NEW p, NEW r
      PROVE  /\ Cardinality(Recovering(p) \cup {r}) <= Cardinality(Recovering(p)) + 1
             /\ Cardinality(Recovering(p) \ {r}) <= Cardinality(Recovering(p))
             /\ r \in Recovering(p) =>
                  Cardinality(Recovering(p) \ {r}) = Cardinality(Recovering(p)) - 1
  <2> DEFINE S == Recovering(p)
  <2>1. IsFiniteSet(S) /\ Cardinality(S) \in Nat
    BY <1>1
  <2> HIDE DEF S
  <2>2. Cardinality(S \cup {r}) = IF r \in S THEN Cardinality(S) ELSE Cardinality(S) + 1
    BY <2>1, FS_AddElement
  <2>3. Cardinality(S \ {r}) = IF r \in S THEN Cardinality(S) - 1 ELSE Cardinality(S)
    BY <2>1, FS_RemoveElement
  <2>4. /\ Cardinality(S \cup {r}) <= Cardinality(S) + 1
        /\ Cardinality(S \ {r}) <= Cardinality(S)
        /\ r \in S => Cardinality(S \ {r}) = Cardinality(S) - 1
    BY <2>1, <2>2, <2>3
  <2> QED
    BY <2>4 DEF S
<1> QED
  BY <1>1, <1>2

LEMMA OnceFacts ==
  ASSUME TypeInv, NEW p \in Prompts
  PROVE  /\ shown[p] \in Nat /\ added[p] \in Nat /\ Cardinality(Recovering(p)) \in Nat
         /\ Tracked(p) \in BOOLEAN
BY RecoveringFinite DEF TypeInv, TypeOK, Tracked

(* A callback goes from t to u. *)
LEMMA RecoveringStep ==
  ASSUME TypeInv, NEW r \in Ticks, NEW u, tick' = [tick EXCEPT ![r] = u], NEW p
  PROVE  Recovering(p)' = IF u.pc = "recover" /\ Head(u.todo) = p
                          THEN Recovering(p) \cup {r} ELSE Recovering(p) \ {r}
<1>1. tick \in [Ticks -> Reconciler]
  BY DEF TypeInv, TypeOK
<1>2. tick'[r] = u /\ \A q \in Ticks : q # r => tick'[q] = tick[q]
  BY <1>1
<1> QED
  BY <1>2 DEF Recovering

LEMMA RecoveringHeard ==
  ASSUME TypeInv, NEW q, Heard(q), NEW p
  PROVE  Recovering(p)' = Recovering(p)
BY TickHeard DEF TypeInv, Recovering

(* Steps that leave alone what counts. *)
LEMMA OnceKept ==
  ASSUME TypeInv, OnceInv, UNCHANGED <<pending, closing, tick, shown, added>>
  PROVE  OnceInv'
BY DEF OnceInv, OnceFor, Tracked, Recovering

LEMMA OnceEnqueue ==
  ASSUME TypeInv, OnceInv, NEW p \in Prompts, Enqueue(p), UNCHANGED <<closing, tick, shown>>
  PROVE  OnceInv'
<1> SUFFICES ASSUME NEW q \in Prompts PROVE OnceFor(q)'
  BY DEF OnceInv
<1>1. OnceFor(q) /\ Recovering(q)' = Recovering(q)
  BY DEF OnceInv, Recovering
<1>2. Range(pending') = Range(pending) \cup {p}
  BY EnqueueType DEF TypeInv
<1>3. CASE Tracked(p)
  BY <1>1, <1>3 DEF Enqueue, OnceFor, Tracked
<1>4. CASE ~Tracked(p)
  <2>1. added' = [added EXCEPT ![p] = @ + 1] /\ added \in [Prompts -> Nat]
    BY <1>4 DEF Enqueue, TypeInv, TypeOK
  <2>2. CASE q = p
    <3>1. added'[q] = added[q] + 1 /\ Tracked(q)' /\ ~Tracked(q)
      BY <1>2, <1>4, <2>1, <2>2 DEF Tracked
    <3> QED
      BY <1>1, <3>1, OnceFacts DEF OnceFor, One
  <2>3. CASE q # p
    <3>1. added'[q] = added[q] /\ Tracked(q)' = Tracked(q)
      BY <1>2, <2>1, <2>3 DEF Tracked
    <3> QED
      BY <1>1, <3>1 DEF OnceFor
  <2> QED
    BY <2>2, <2>3
<1> QED
  BY <1>3, <1>4

(* Prompts are only removed, and nothing else changes. *)
LEMMA OnceRemoved ==
  ASSUME TypeInv, OnceInv, Range(pending') \subseteq Range(pending),
         UNCHANGED <<closing, shown, added>>, \A p \in Prompts : Recovering(p)' = Recovering(p)
  PROVE  OnceInv'
<1> SUFFICES ASSUME NEW q \in Prompts PROVE OnceFor(q)'
  BY DEF OnceInv
<1>1. OnceFor(q) /\ Recovering(q)' = Recovering(q)
  BY DEF OnceInv
<1>2. Tracked(q)' => Tracked(q)
  BY DEF Tracked
<1>3. One(Tracked(q)') <= One(Tracked(q)) /\ One(Tracked(q)) \in Nat /\ One(Tracked(q)') \in Nat
  BY <1>2 DEF One
<1> QED
  BY <1>1, <1>3, OnceFacts DEF OnceFor, One

(* What is put on show of a prompt that was completed, and who goes on to  *)
(* recover some.                                                           *)
LEMMA CompleteOnce ==
  ASSUME TypeInv, NEW p \in Prompts, Complete(p)
  PROVE  /\ \A q \in Prompts \ {p} : shown'[q] = shown[q] /\ Tracked(q)' = Tracked(q)
         /\ shown'[p] + One(Tracked(p)') + One(NothingToShow(p)) <= shown[p] + One(Tracked(p))
         /\ shown'[p] \in Nat
<1>1. Range(pending') = Range(pending) \ {p} /\ shown' \in [Prompts -> Nat]
  BY CompleteType DEF TypeInv
<1>2. shown \in [Prompts -> Nat]
  BY DEF TypeInv, TypeOK
<1>3. ~Tracked(p)' /\ \A q \in Prompts \ {p} : Tracked(q)' = Tracked(q)
  BY <1>1 DEF Tracked
<1>4. CASE Tracked(p)
  <2>1. shown' = [shown EXCEPT ![p] = @ + (IF images[p] = {} THEN 0 ELSE 1)]
    BY <1>4 DEF Complete, Finalize
  <2>2. shown'[p] = shown[p] + (IF images[p] = {} THEN 0 ELSE 1)
    BY <1>2, <2>1
  <2>3. NothingToShow(p) <=> images[p] = {}
    BY <1>4 DEF NothingToShow
  <2> QED
    BY <1>1, <1>2, <1>3, <1>4, <2>1, <2>2, <2>3 DEF One
<1>5. CASE ~Tracked(p)
  <2>1. shown' = shown /\ ~NothingToShow(p)
    BY <1>5 DEF Complete, NothingToShow
  <2> QED
    BY <1>1, <1>2, <1>3, <1>5, <2>1 DEF One
<1> QED
  BY <1>4, <1>5

LEMMA OnceClosed ==
  ASSUME TypeInv, OnceInv, NEW p \in Prompts, CloseNow(p), UNCHANGED <<tick, added>>
  PROVE  OnceInv'
<1> SUFFICES ASSUME NEW q \in Prompts PROVE OnceFor(q)'
  BY DEF OnceInv
<1>1. OnceFor(q) /\ Recovering(q)' = Recovering(q)
  BY DEF OnceInv, Recovering
<1>2. /\ \A x \in Prompts \ {p} : shown'[x] = shown[x] /\ Tracked(x)' = Tracked(x)
      /\ shown'[p] + One(Tracked(p)') + One(NothingToShow(p)) <= shown[p] + One(Tracked(p))
      /\ shown'[p] \in Nat
  BY CompleteOnce DEF CloseNow
<1>3. /\ closing'[p].pc = IF NothingToShow(p) THEN "recover" ELSE "idle"
      /\ \A x \in Prompts \ {p} : closing'[x] = closing[x]
  BY DEF CloseNow, TypeInv, TypeOK
<1>4. One(closing'[p].pc = "recover") = One(NothingToShow(p))
  BY <1>3 DEF One
<1>5. One(Tracked(p)') \in Nat /\ One(NothingToShow(p)) \in Nat /\ One(Tracked(p)) \in Nat
      /\ One(closing[p].pc = "recover") \in Nat
  BY DEF One
<1>6. CASE q = p
  BY <1>1, <1>2, <1>4, <1>5, <1>6, OnceFacts DEF OnceFor
<1>7. CASE q # p
  <2>1. /\ shown'[q] = shown[q] /\ Tracked(q)' = Tracked(q) /\ closing'[q] = closing[q]
        /\ added'[q] = added[q]
    BY <1>2, <1>3, <1>7
  <2> QED
    BY <1>1, <2>1 DEF OnceFor
<1> QED
  BY <1>6, <1>7

(* finalizeOutputImages of what was recovered. *)
LEMMA FinalizeOnce ==
  ASSUME TypeInv, NEW p \in Prompts, NEW imgs, Finalize(p, imgs)
  PROVE  /\ \A q \in Prompts \ {p} : shown'[q] = shown[q]
         /\ shown'[p] <= shown[p] + 1 /\ shown'[p] \in Nat
BY DEF Finalize, TypeInv, TypeOK

LEMMA OnceRecovered ==
  ASSUME TypeInv, OnceInv, NEW p \in Prompts, CloseAfterRecovery(p)
  PROVE  OnceInv'
<1> SUFFICES ASSUME NEW q \in Prompts PROVE OnceFor(q)'
  BY DEF OnceInv
<1>1. OnceFor(q) /\ UNCHANGED <<pending, tick, added>>
  BY DEF OnceInv, CloseAfterRecovery
<1>2. /\ \A x \in Prompts \ {p} : shown'[x] = shown[x]
      /\ shown'[p] <= shown[p] + 1 /\ shown'[p] \in Nat
  BY FinalizeOnce DEF CloseAfterRecovery
<1>3. /\ closing[p].pc = "recover" /\ closing'[p].pc = "idle"
      /\ \A x \in Prompts \ {p} : closing'[x] = closing[x]
  BY DEF CloseAfterRecovery, Resting, TypeInv, TypeOK
<1>4. Tracked(q)' = Tracked(q) /\ Recovering(q)' = Recovering(q) /\ One(Tracked(q)) \in Nat
  BY <1>1 DEF Tracked, Recovering, One
<1>5. CASE q = p
  <2>1. One(closing[q].pc = "recover") = 1 /\ One(closing'[q].pc = "recover") = 0
    BY <1>3, <1>5 DEF One
  <2>2. added'[q] = added[q]
    BY <1>1
  <2> QED
    BY <1>1, <1>2, <1>4, <1>5, <2>1, <2>2, OnceFacts DEF OnceFor
<1>6. CASE q # p
  <2>1. /\ shown'[q] = shown[q] /\ Tracked(q)' = Tracked(q) /\ closing'[q] = closing[q]
        /\ added'[q] = added[q]
    BY <1>1, <1>2, <1>3, <1>4, <1>6
  <2> QED
    BY <1>1, <1>4, <2>1 DEF OnceFor
<1> QED
  BY <1>5, <1>6

LEMMA OnceReconciler ==
  ASSUME TypeInv, OnceInv, NEW r \in Ticks, Reconciles(r)
  PROVE  OnceInv'
<1>0. tick \in [Ticks -> Reconciler] /\ tick[r] \in Reconciler
  BY DEF TypeInv, TypeOK
(* A callback goes on, without having had anything to recover. *)
<1>1. ASSUME NEW u, u.pc # "recover", tick[r].pc # "recover", tick' = [tick EXCEPT ![r] = u]
      PROVE  \A p \in Prompts : Recovering(p)' = Recovering(p)
  <2> SUFFICES ASSUME NEW p \in Prompts PROVE Recovering(p)' = Recovering(p)
    OBVIOUS
  <2>1. Recovering(p)' = Recovering(p) \ {r}
    BY <1>1, RecoveringStep
  <2>2. r \notin Recovering(p)
    BY <1>1 DEF Recovering
  <2> QED
    BY <2>1, <2>2
<1>2. ASSUME NEW u, u.pc # "recover", tick[r].pc # "recover", tick' = [tick EXCEPT ![r] = u],
             UNCHANGED <<pending, closing, shown, added>>
      PROVE  OnceInv'
  <2>1. \A p \in Prompts : Recovering(p)' = Recovering(p)
    BY <1>1, <1>2
  <2> QED
    BY <1>2, <2>1, OnceRemoved
<1>3. GoOn(tick[r]).pc # "recover"
  BY <1>0, GoOnType
<1>4. CASE TickStarts(r)
  <2>1. [Sleeping EXCEPT !.pc = "query"].pc # "recover"
    BY DEF Sleeping
  <2> QED
    BY <1>2, <1>4, <2>1 DEF TickStarts, outcome
<1>5. CASE GetQueue(r)
  <2>1. tick'[r].pc = "answered" /\ tick' = [tick EXCEPT ![r] = tick'[r]] /\ tick[r].pc = "query"
    BY <1>0, <1>5 DEF GetQueue, Reconciler
  <2> QED
    BY <1>2, <1>5, <2>1 DEF GetQueue, outcome
<1>6. CASE QueueKnown(r)
  <2> DEFINE u == IF pending = <<>> THEN Sleeping ELSE InLoop(tick[r])
  <2>1. u.pc # "recover"
    BY <1>0 DEF Sleeping, InLoop, Reconciler
  <2>2. tick' = [tick EXCEPT ![r] = u]
    BY <1>6 DEF QueueKnown
  <2> HIDE DEF u
  <2> QED
    BY <1>2, <1>6, <2>1, <2>2 DEF QueueKnown, outcome
<1>6a. CASE QueueLate(r)
  <2> DEFINE u == IF pending = <<>> THEN Sleeping ELSE InLoopLate(tick[r])
  <2>1. u.pc # "recover"
    BY <1>0 DEF Sleeping, InLoopLate, Reconciler
  <2>2. tick' = [tick EXCEPT ![r] = u]
    BY <1>6a DEF QueueLate
  <2>3. tick[r].pc # "recover"
    BY <1>6a DEF QueueLate
  <2> HIDE DEF u
  <2> QED
    BY <1>2, <1>6a, <2>1, <2>2, <2>3 DEF QueueLate, outcome
<1>7. CASE TickSkips(r)
  BY <1>2, <1>3, <1>7 DEF TickSkips, outcome
<1>8. CASE TickWaits(r)
  <2>1. tick'[r].pc = "await" /\ tick' = [tick EXCEPT ![r] = tick'[r]] /\ tick[r].pc = "loop"
    BY <1>0, <1>8 DEF TickWaits, Reconciler
  <2> QED
    BY <1>2, <1>8, <2>1 DEF TickWaits, outcome
<1>9. ASSUME NEW p \in Prompts, NEW guard, GiveUpNow(r, p, guard), p = Head(tick[r].todo),
             tick[r].pc # "recover", UNCHANGED <<closing, added>>
      PROVE  OnceInv'
  <2> DEFINE u == [tick[r] EXCEPT !.pc = "recover", !.waits = {}, !.guard = guard]
  <2>1. tick' = [tick EXCEPT ![r] = IF NothingToShow(p) THEN u ELSE GoOn(tick[r])]
    BY <1>9 DEF GiveUpNow
  <2>2. u.pc = "recover" /\ Head(u.todo) = p
    BY <1>0, <1>9 DEF Reconciler
  <2> HIDE DEF u
  <2>3. /\ \A x \in Prompts \ {p} : shown'[x] = shown[x] /\ Tracked(x)' = Tracked(x)
        /\ shown'[p] + One(Tracked(p)') + One(NothingToShow(p)) <= shown[p] + One(Tracked(p))
        /\ shown'[p] \in Nat
    BY <1>9, CompleteOnce DEF GiveUpNow
  <2>4. \A x : r \notin Recovering(x)
    BY <1>9 DEF Recovering
  <2>5. ASSUME NEW x
        PROVE  Recovering(x)' = IF NothingToShow(p) /\ x = p THEN Recovering(x) \cup {r}
                                                          ELSE Recovering(x)
    <3>1. CASE NothingToShow(p)
      <4>1. tick' = [tick EXCEPT ![r] = u]
        BY <2>1, <3>1
      <4>2. Recovering(x)' = IF u.pc = "recover" /\ Head(u.todo) = x
                             THEN Recovering(x) \cup {r} ELSE Recovering(x) \ {r}
        BY <4>1, RecoveringStep
      <4> QED
        BY <2>2, <2>4, <3>1, <4>2
    <3>2. CASE ~NothingToShow(p)
      <4>1. tick' = [tick EXCEPT ![r] = GoOn(tick[r])]
        BY <2>1, <3>2
      <4>2. Recovering(x)' = IF GoOn(tick[r]).pc = "recover" /\ Head(GoOn(tick[r]).todo) = x
                             THEN Recovering(x) \cup {r} ELSE Recovering(x) \ {r}
        BY <4>1, RecoveringStep
      <4> QED
        BY <1>3, <2>4, <3>2, <4>2
    <3> QED
      BY <3>1, <3>2
  <2>6. /\ Cardinality(Recovering(p)') <= Cardinality(Recovering(p)) + One(NothingToShow(p))
        /\ Cardinality(Recovering(p)') \in Nat
    <3>1. CASE NothingToShow(p)
      <4>1. Recovering(p)' = Recovering(p) \cup {r}
        BY <2>5, <3>1
      <4>2. Cardinality(Recovering(p) \cup {r}) <= Cardinality(Recovering(p)) + 1
        BY RecoveringFinite
      <4>3. IsFiniteSet(Recovering(p) \cup {r})
        BY RecoveringFinite, FS_AddElement
      <4> QED
        BY <3>1, <4>1, <4>2, <4>3, FS_CardinalityType DEF One
    <3>2. CASE ~NothingToShow(p)
      <4>1. Recovering(p)' = Recovering(p)
        BY <2>5, <3>2
      <4> QED
        BY <3>2, <4>1, RecoveringFinite DEF One
    <3> QED
      BY <3>1, <3>2
  <2>7. ASSUME NEW q \in Prompts PROVE OnceFor(q)'
    <3>1. OnceFor(q)
      BY DEF OnceInv
    <3>2. added'[q] = added[q] /\ closing'[q] = closing[q]
      BY <1>9
    <3>3. CASE q = p
      <4>1. One(Tracked(p)') \in Nat /\ One(NothingToShow(p)) \in Nat /\ One(Tracked(p)) \in Nat
            /\ One(closing[p].pc = "recover") \in Nat
        BY DEF One
      <4> QED
        BY <2>3, <2>6, <3>1, <3>2, <3>3, <4>1, OnceFacts DEF OnceFor
    <3>4. CASE q # p
      BY <2>3, <2>5, <3>1, <3>2, <3>4 DEF OnceFor
    <3> QED
      BY <3>3, <3>4
  <2> QED
    BY <2>7 DEF OnceInv
<1>10. CASE TickCompletes(r)
  <2>1. Head(tick[r].todo) \in Prompts
    BY <1>10, EntryType DEF TickCompletes
  <2> QED
    BY <1>9, <1>10, <2>1 DEF TickCompletes
<1>11. CASE TickAfterFetches(r)
  <2>1. Head(tick[r].todo) \in Prompts
    BY <1>11, EntryType DEF TickAfterFetches
  <2> QED
    BY <1>9, <1>11, <2>1 DEF TickAfterFetches
<1>12. ASSUME TickAfterRecovery(r), NEW p \in Prompts, p = Head(tick[r].todo) PROVE OnceInv'
  <2>1. tick[r].pc = "recover" /\ r \in Recovering(p)
    BY <1>12 DEF TickAfterRecovery, Recovering
  <2>2. /\ tick' = [tick EXCEPT ![r] = GoOn(tick[r])] /\ UNCHANGED <<pending, closing, added>>
        /\ \E imgs : Finalize(p, imgs)
    BY <1>12 DEF TickAfterRecovery
  <2>3. \A x \in Prompts : Recovering(x)' = Recovering(x) \ {r}
    BY <1>3, <2>2, RecoveringStep
  <2>4. \A x \in Prompts \ {p} : r \notin Recovering(x)
    BY <1>12 DEF Recovering
  <2>5. /\ \A x \in Prompts \ {p} : shown'[x] = shown[x]
        /\ shown'[p] <= shown[p] + 1 /\ shown'[p] \in Nat
    BY <2>1, <2>2, FinalizeOnce
  <2>6. Cardinality(Recovering(p)') = Cardinality(Recovering(p)) - 1
    BY <2>1, <2>3, RecoveringFinite
  <2>7. ASSUME NEW q \in Prompts PROVE OnceFor(q)'
    <3>1. OnceFor(q)
      BY DEF OnceInv
    <3>2. added'[q] = added[q] /\ closing'[q] = closing[q] /\ Tracked(q)' = Tracked(q)
      BY <2>2 DEF Tracked
    <3>3. CASE q = p
      <4>1. One(Tracked(p)) \in Nat /\ One(closing[p].pc = "recover") \in Nat
        BY DEF One
      <4> QED
        BY <2>5, <2>6, <3>1, <3>2, <3>3, <4>1, OnceFacts DEF OnceFor
    <3>4. CASE q # p
      <4>1. Recovering(q)' = Recovering(q) /\ shown'[q] = shown[q]
        BY <2>3, <2>4, <2>5, <3>4
      <4> QED
        BY <3>1, <3>2, <4>1 DEF OnceFor
    <3> QED
      BY <3>3, <3>4
  <2> QED
    BY <2>7 DEF OnceInv
<1>13. TickAfterRecovery(r) => Head(tick[r].todo) \in Prompts
  BY EntryType DEF TickAfterRecovery
<1> QED
  BY <1>4, <1>5, <1>6, <1>6a, <1>7, <1>8, <1>10, <1>11, <1>12, <1>13 DEF Reconciles

LEMMA OnceHandler ==
  ASSUME TypeInv, OnceInv, Handles
  PROVE  OnceInv'
<1> USE DEF view, collected, outcome
<1> DEFINE p == Head(chan).prompt
<1>0. /\ Head(chan) \in Event
      /\ Head(chan).kind # "cleared" => p \in Prompts
  <2>1. chan # <<>>
    BY DEF Handles, OnQueued, OnExecuting, OnPreview, OnOutput, OnDone, OnError, OnCleared, NextIs
  <2> QED
    BY <2>1, TypeFacts, FirstTaken, EventTypes DEF TypeInv
<1>1. CASE OnQueued
  BY <1>0, <1>1, OnceEnqueue DEF OnQueued, NextIs
<1>2. CASE OnExecuting
  <2>1. \A q \in Prompts : Recovering(q)' = Recovering(q)
    <3>1. CASE Tracked(p)
      BY <1>2, <3>1, RecoveringHeard DEF OnExecuting
    <3>2. CASE ~Tracked(p)
      BY <1>2, <3>2 DEF OnExecuting, Recovering
    <3> QED
      BY <3>1, <3>2
  <2> QED
    BY <1>2, <2>1, OnceRemoved DEF OnExecuting
<1>3. CASE OnPreview \/ OnOutput
  BY <1>3, OnceKept DEF OnPreview, OnOutput
<1>4. CASE OnDone
  <2>1. CASE ~Tracked(p)
    BY <1>4, <2>1, OnceKept DEF OnDone
  <2>2. CASE CloseNow(p) /\ UNCHANGED tick
    BY <1>0, <1>4, <2>2, OnceClosed DEF OnDone, NextIs
  <2>3. CASE /\ closing' = [closing EXCEPT ![p] = [pc |-> "await", waits |-> registered[p]]]
             /\ Heard(p)
             /\ UNCHANGED <<pending, active, preview, images, shown, gallery>>
    <3>1. UNCHANGED added /\ \A q \in Prompts : Recovering(q)' = Recovering(q)
      BY <1>4, <2>3, RecoveringHeard DEF OnDone
    <3>2. ASSUME NEW q \in Prompts PROVE OnceFor(q)'
      <4>1. /\ OnceFor(q) /\ Tracked(q)' = Tracked(q) /\ Recovering(q)' = Recovering(q)
            /\ shown'[q] = shown[q] /\ added'[q] = added[q]
        BY <2>3, <3>1 DEF OnceInv, Tracked
      <4>2. closing'[q].pc = "recover" => closing[q].pc = "recover"
        BY <2>3 DEF TypeInv, TypeOK
      <4>3. /\ One(closing'[q].pc = "recover") <= One(closing[q].pc = "recover")
            /\ One(closing'[q].pc = "recover") \in Nat /\ One(closing[q].pc = "recover") \in Nat
            /\ One(Tracked(q)) \in Nat
        BY <4>2 DEF One
      <4> QED
        BY <4>1, <4>3, OnceFacts DEF OnceFor
    <3> QED
      BY <3>2 DEF OnceInv
  <2> QED
    BY <1>4, <2>1, <2>2, <2>3 DEF OnDone
<1>5. CASE OnError
  <2>1. Range(pending') \subseteq Range(pending)
    BY <1>5, OthersType DEF OnError, RemovePrompt, TypeInv
  <2>2. \A q \in Prompts : Recovering(q)' = Recovering(q)
    BY <1>5 DEF OnError, Recovering
  <2> QED
    BY <1>5, <2>1, <2>2, OnceRemoved DEF OnError
<1>6. CASE OnCleared
  <2>1. Range(pending') \subseteq Range(pending)
    BY <1>6 DEF OnCleared, CancelAll, Range
  <2>2. \A q \in Prompts : Recovering(q)' = Recovering(q)
    BY <1>6 DEF OnCleared, Recovering
  <2> QED
    BY <1>6, <2>1, <2>2, OnceRemoved DEF OnCleared
<1> QED
  BY <1>1, <1>2, <1>3, <1>4, <1>5, <1>6 DEF Handles

LEMMA NextOnceInv ==
  ASSUME TypeInv, OnceInv, [Next]_vars
  PROVE  OnceInv'
<1> USE DEF client, server, stream, view, collected, outcome
<1>1. CASE ServerWorks
  BY <1>1, OnceKept DEF ServerWorks, Run, End, Forget, Output
<1>2. CASE Handles
  BY <1>2, OnceHandler
<1>3. CASE Clear \/ Disconnect \/ Lag \/ Reconnect \/ Connection
  BY <1>3, OnceKept DEF Clear, Disconnect, Lag, Reconnect, Connection, WorkerBreaks, WorkerReturns,
                        OnConnection
<1>4. ASSUME NEW p \in Prompts,
             \/ Accept(p) \/ Unshield(p) \/ Break(p) \/ Age(p) \/ PreviewFetched(p)
             \/ \E o \in Outputs : OutputFetched(p, o) \/ OutputFetchFails(p, o)
      PROVE  OnceInv'
  BY <1>4, OnceKept DEF Accept, Unshield, Break, Age, PreviewFetched, OutputFetched, OutputFetchFails
<1>5. ASSUME NEW p \in Prompts, Track(p) PROVE OnceInv'
  BY <1>5, OnceEnqueue DEF Track
<1>6. ASSUME NEW p \in Prompts, Closes(p) PROVE OnceInv'
  <2>1. CASE CloseAfterFetches(p)
    BY <2>1, OnceClosed DEF CloseAfterFetches
  <2> QED
    BY <1>6, <2>1, OnceRecovered DEF Closes
<1>7. CASE UNCHANGED vars
  BY <1>7, OnceKept DEF vars
<1> QED
  BY <1>1, <1>2, <1>3, <1>4, <1>5, <1>6, <1>7, OnceReconciler DEF Next

(* The images of a prompt are put on show at most once for each time it    *)
(* was added, however many handlers and callbacks got to it: each takes    *)
(* the entry before it shows anything, or recovers what there is.          *)
THEOREM ShownOnce == Spec => []OncePerTracking
<1>1. Init => TypeInv /\ OnceInv
  <2> SUFFICES ASSUME Init PROVE TypeInv /\ OnceInv
    OBVIOUS
  <2>1. TypeInv
    BY InitType DEF TypeInv, Busy, Init, Sleeping
  <2>2. ASSUME NEW p \in Prompts PROVE OnceFor(p)
    <3>1. Recovering(p) = {} /\ ~Tracked(p) /\ closing[p].pc = "idle" /\ shown[p] = 0 /\ added[p] = 0
      BY DEF Init, Recovering, Tracked, Range, Sleeping, Resting
    <3>2. Cardinality(Recovering(p)) = 0
      BY <3>1, FS_EmptySet
    <3> QED
      BY <3>1, <3>2 DEF OnceFor, One
  <2> QED
    BY <2>1, <2>2 DEF OnceInv
<1>2. (TypeInv /\ OnceInv) /\ [Next]_vars => (TypeInv /\ OnceInv)'
  BY NextTypeInv, NextOnceInv
<1>3. TypeInv /\ OnceInv => OncePerTracking
  <2> SUFFICES ASSUME TypeInv, OnceInv, NEW p \in Prompts PROVE shown[p] <= added[p]
    BY DEF OncePerTracking
  <2>1. OnceFor(p)
    BY DEF OnceInv
  <2>2. One(Tracked(p)) \in Nat /\ One(closing[p].pc = "recover") \in Nat
    BY DEF One
  <2> QED
    BY <2>1, <2>2, OnceFacts DEF OnceFor
<1> QED
  BY <1>1, <1>2, <1>3, PTL DEF Spec

-----------------------------------------------------------------------------
(* Which prompts the server has left. *)

Left(p) == srv[p] = "gone" \/ p \in unshielded

Looked == {"answered", "loop", "await", "recover"}

(* What a callback saw quiet, and not in the queue, the server has left,   *)
(* unless the answer was late.                                             *)
LooksBack(t) ==
  /\ t.pc \in {"query", "answered"} => ~t.late
  /\ t.pc \in Looked /\ ~t.late => \A p \in (t.old \cup t.silent) \ t.snap : Left(p)
  /\ t.pc \in {"await", "recover"} /\ t.guard = "aged" => Left(Head(t.todo))

(* Of a prompt that the browser knows, or will hear of, the server knew    *)
(* before.                                                                 *)
LeftInv ==
  /\ \A p \in Prompts : Tracked(p) \/ answered[p] = "sent" => srv[p] # "none"
  /\ \A i \in 1..Len(chan) : chan[i].kind = "queued" => srv[chan[i].prompt] # "none"
  /\ \A r \in Ticks : LooksBack(tick[r])

(* A prompt that is gone or unshielded remains so, and one that is known.  *)
LEMMA LeftForGood ==
  ASSUME TypeInv, [Next]_vars
  PROVE  /\ \A p \in Prompts : srv[p] # "none" => srv'[p] # "none"
         /\ \A p \in Prompts : srv[p] = "gone" => srv'[p] = "gone"
         /\ unshielded \subseteq unshielded'
<1> USE DEF client, server, stream, bounds
<1>0. srv \in [Prompts -> {"none", "held", "running", "ended", "gone"}]
  BY DEF TypeInv, TypeOK
<1>1. ASSUME NEW p \in Prompts,
             Accept(p) \/ Run(p) \/ End(p) \/ Break(p) \/ Forget(p) \/ Unshield(p)
             \/ \E o \in Outputs : Output(p, o)
      PROVE  /\ \A q \in Prompts : srv[q] # "none" => srv'[q] # "none"
             /\ \A q \in Prompts : srv[q] = "gone" => srv'[q] = "gone"
             /\ unshielded \subseteq unshielded'
  BY <1>0, <1>1 DEF Accept, Run, End, Break, Forget, Unshield, Output
<1>2. CASE Clear
  BY <1>0, <1>2 DEF Clear
<1>3. CASE UNCHANGED <<srv, unshielded>>
  BY <1>3
<1>4. CASE Handles
  BY <1>3, <1>4 DEF Handles, OnQueued, OnExecuting, OnPreview, OnOutput, OnDone, OnError,
                    OnCleared, Taken
<1>5. CASE Disconnect \/ Lag \/ Reconnect \/ Connection
  BY <1>3, <1>5 DEF Disconnect, Lag, Reconnect, Connection, WorkerBreaks, WorkerReturns, OnConnection
<1>6. CASE \E p \in Prompts : \/ Age(p) \/ Track(p) \/ PreviewFetched(p) \/ Closes(p)
                              \/ \E o \in Outputs : OutputFetched(p, o) \/ OutputFetchFails(p, o)
  BY <1>3, <1>6 DEF Age, Track, PreviewFetched, Closes, CloseAfterFetches, CloseAfterRecovery,
                    OutputFetched, OutputFetchFails
<1>7. CASE \E r \in Ticks : Reconciles(r)
  BY <1>3, <1>7 DEF Reconciles, TickStarts, GetQueue, QueueKnown, QueueLate, TickSkips,
                    TickCompletes, TickWaits, TickAfterFetches, TickAfterRecovery
<1>8. CASE UNCHANGED vars
  BY <1>3, <1>8 DEF vars
<1>9. CASE ServerWorks
  BY <1>1, <1>9 DEF ServerWorks
<1> QED
  BY <1>1, <1>2, <1>4, <1>5, <1>6, <1>7, <1>8, <1>9 DEF Next

(* The events on their way: the old ones, and those that are sent. *)
LEMMA EmitElems ==
  ASSUME TypeOK, NEW events \in Seq(Event), Emit(events)
  PROVE  \A i \in 1..Len(chan') : \/ i \in 1..Len(chan) /\ chan'[i] = chan[i]
                                  \/ \E j \in 1..Len(events) : chan'[i] = events[j]
<1>1. CASE chan' = chan
  BY <1>1
<1>2. CASE chan' = chan \o events
  <2>1. chan \in Seq(Event)
    BY DEF TypeOK
  <2>2. ASSUME NEW i \in 1..Len(chan')
        PROVE  \/ i \in 1..Len(chan) /\ chan'[i] = chan[i]
               \/ i - Len(chan) \in 1..Len(events) /\ chan'[i] = events[i - Len(chan)]
    BY <1>2, <2>1, <2>2, ConcatProperties
  <2> QED
    BY <2>2
<1> QED
  BY <1>1, <1>2 DEF Emit

LEMMA EmitAnnounced ==
  ASSUME TypeInv, LeftInv, NEW events \in Seq(Event), Emit(events),
         \A p \in Prompts : srv[p] # "none" => srv'[p] # "none",
         \A j \in 1..Len(events) : events[j].kind = "queued" => srv'[events[j].prompt] # "none"
  PROVE  \A i \in 1..Len(chan') : chan'[i].kind = "queued" => srv'[chan'[i].prompt] # "none"
<1>1. \A i \in 1..Len(chan') : \/ i \in 1..Len(chan) /\ chan'[i] = chan[i]
                               \/ \E j \in 1..Len(events) : chan'[i] = events[j]
  BY EmitElems DEF TypeInv
<1>2. \A i \in 1..Len(chan) : chan[i] \in Event
  BY TypeFacts DEF TypeInv
<1>3. \A i \in 1..Len(chan) : chan[i].kind = "queued" =>
        chan[i].prompt \in Prompts /\ srv[chan[i].prompt] # "none"
  BY <1>2, EventTypes DEF LeftInv
<1> QED
  BY <1>1, <1>3

(* The first event is taken. *)
LEMMA TakenElems ==
  ASSUME TypeOK, chan # <<>>, Taken
  PROVE  \A i \in 1..Len(chan') : i + 1 \in 1..Len(chan) /\ chan'[i] = chan[i + 1]
<1>1. chan \in Seq(Event) /\ chan' = Tail(chan)
  BY DEF TypeOK, Taken
<1> QED
  BY <1>1, FirstTaken

LEMMA KindOf ==
  ASSUME NEW kind, NEW p
  PROVE  OfKind(kind, p).kind = kind /\ OfKind(kind, p).prompt = p
BY DEF OfKind

LEMMA AnnouncedPrompts ==
  ASSUME TypeInv, LeftInv, [Next]_vars
  PROVE  \A i \in 1..Len(chan') : chan'[i].kind = "queued" => srv'[chan'[i].prompt] # "none"
<1> DEFINE Good == \A i \in 1..Len(chan') : chan'[i].kind = "queued" => srv'[chan'[i].prompt] # "none"
<1>0. /\ \A p \in Prompts : srv[p] # "none" => srv'[p] # "none"
      /\ \A i \in 1..Len(chan) : chan[i] \in Event
      /\ chan \in Seq(Event)
  BY LeftForGood, TypeFacts DEF TypeInv
<1>1. ASSUME UNCHANGED chan PROVE Good
  <2>1. \A i \in 1..Len(chan) : chan[i].kind = "queued" =>
          chan[i].prompt \in Prompts /\ srv[chan[i].prompt] # "none"
    BY <1>0, EventTypes DEF LeftInv
  <2> QED
    BY <1>0, <1>1, <2>1
<1>2. ASSUME NEW events \in Seq(Event), Emit(events),
             \A j \in 1..Len(events) : events[j].kind = "queued" => srv'[events[j].prompt] # "none"
      PROVE  Good
  BY <1>0, <1>2, EmitAnnounced
<1>3. ASSUME NEW p \in Prompts, Accept(p) PROVE Good
  <2> DEFINE e == OfKind("queued", p)
  <2>1. e \in Event /\ e.prompt = p
    BY EventTypes, KindOf
  <2>2. srv'[p] # "none" /\ Emit(<<e>>)
    BY <1>3 DEF Accept, TypeInv, TypeOK
  <2> HIDE DEF e
  <2>3. <<e>> \in Seq(Event) /\ \A j \in 1..Len(<<e>>) : <<e>>[j] = e
    BY <2>1
  <2>4. \A j \in 1..Len(<<e>>) : srv'[<<e>>[j].prompt] # "none"
    BY <2>1, <2>2, <2>3
  <2> QED
    BY <1>2, <2>2, <2>3, <2>4
<1>4. ASSUME NEW p \in Prompts, Run(p) PROVE Good
  <2> DEFINE e == OfKind("executing", p)
             f == OfKind("preview", p)
  <2>1. e \in Event /\ f \in Event /\ e.kind # "queued" /\ f.kind # "queued"
    BY EventTypes, KindOf
  <2>2. Emit(<<e, f>>)
    BY <1>4 DEF Run, EmitOf
  <2> HIDE DEF e, f
  <2>3. <<e, f>> \in Seq(Event) /\ \A j \in 1..Len(<<e, f>>) : <<e, f>>[j] \in {e, f}
    BY <2>1
  <2>4. \A j \in 1..Len(<<e, f>>) : <<e, f>>[j].kind # "queued"
    BY <2>1, <2>3
  <2> QED
    BY <1>2, <2>2, <2>3, <2>4
<1>5. ASSUME NEW e \in Event, e.kind # "queued", Emit(<<e>>) PROVE Good
  <2>1. <<e>> \in Seq(Event) /\ \A j \in 1..Len(<<e>>) : <<e>>[j] = e
    BY <1>5
  <2>2. \A j \in 1..Len(<<e>>) : <<e>>[j].kind # "queued"
    BY <1>5, <2>1
  <2> QED
    BY <1>2, <1>5, <2>1, <2>2
<1>6. ASSUME NEW p \in Prompts, \/ End(p) \/ Break(p) \/ \E o \in Outputs : Output(p, o) PROVE Good
  <2>1. CASE End(p)
    BY <1>5, <2>1, EventTypes, KindOf DEF End, EmitOf
  <2>2. CASE Break(p)
    BY <1>5, <2>2, EventTypes, KindOf DEF Break
  <2>3. CASE \E o \in Outputs : Output(p, o)
    BY <1>5, <2>3, EventTypes DEF Output, EmitOf
  <2> QED
    BY <1>6, <2>1, <2>2, <2>3
<1>7. CASE Clear
  BY <1>5, <1>7, EventTypes DEF Clear
<1>8. ASSUME NEW p \in Prompts, Forget(p) PROVE Good
  <2> DEFINE es == ForEach("queued", InQueue \ {p})
  <2>1. InQueue \ {p} \in SUBSET Prompts /\ \A q \in InQueue : srv[q] # "none"
    BY DEF InQueue
  <2>2. /\ es \in Seq(Event)
        /\ \A i \in 1..Len(es) : \E q \in InQueue \ {p} : es[i] = OfKind("queued", q)
    BY <2>1, ForEachType
  <2>3. Emit(es)
    BY <1>8 DEF Forget
  <2> HIDE DEF es
  <2>4. ASSUME NEW j \in 1..Len(es) PROVE srv'[es[j].prompt] # "none"
    <3>1. PICK q \in InQueue \ {p} : es[j] = OfKind("queued", q)
      BY <2>2
    <3>2. es[j].prompt = q /\ srv'[q] # "none"
      BY <1>0, <2>1, <3>1, KindOf
    <3> QED
      BY <3>2
  <2> QED
    BY <1>2, <2>2, <2>3, <2>4
<1>9. CASE Disconnect \/ Lag
  BY <1>9 DEF Disconnect, Lag
<1>9a. CASE Connection
  BY <1>1, <1>9a, NewsOnly DEF TypeInv
<1>10. CASE Reconnect
  <2> DEFINE held == ForEach("queued", InQueue)
             frames == ForEach("preview", {q \in InQueue : srv[q] # "held"})
  <2>1. InQueue \in SUBSET Prompts /\ \A q \in InQueue : srv[q] # "none"
    BY DEF InQueue
  <2>2. /\ held \in Seq(Event)
        /\ \A i \in 1..Len(held) : \E q \in InQueue : held[i] = OfKind("queued", q)
    BY <2>1, ForEachType
  <2>3. {q \in InQueue : srv[q] # "held"} \in SUBSET Prompts
    BY <2>1
  <2>4. /\ frames \in Seq(Event)
        /\ \A i \in 1..Len(frames) : \E q \in Prompts : frames[i] = OfKind("preview", q)
    BY <2>3, ForEachType
  <2>5. chan' = held \o frames /\ srv' = srv
    BY <1>10 DEF Reconnect, server
  <2> HIDE DEF held, frames
  <2>6. ASSUME NEW i \in 1..Len(chan')
        PROVE  \/ i \in 1..Len(held) /\ chan'[i] = held[i]
               \/ i - Len(held) \in 1..Len(frames) /\ chan'[i] = frames[i - Len(held)]
    BY <2>2, <2>4, <2>5, <2>6, ConcatProperties
  <2>7. \A i \in 1..Len(held) : srv[held[i].prompt] # "none"
    BY <2>1, <2>2, KindOf
  <2>8. \A i \in 1..Len(frames) : frames[i].kind # "queued"
    BY <2>4, KindOf
  <2> QED
    BY <2>5, <2>6, <2>7, <2>8
<1>11. CASE Handles
  <2>1. chan # <<>> /\ Taken
    BY <1>11 DEF Handles, OnQueued, OnExecuting, OnPreview, OnOutput, OnDone, OnError, OnCleared, NextIs
  <2>2. (\A i \in 1..Len(chan') : i + 1 \in 1..Len(chan) /\ chan'[i] = chan[i + 1]) /\ srv' = srv
    BY <2>1, TakenElems DEF TypeInv, Taken, server
  <2> QED
    BY <2>2 DEF LeftInv
<1>12. CASE \E p \in Prompts : \/ Unshield(p) \/ Age(p) \/ Track(p) \/ PreviewFetched(p) \/ Closes(p)
                               \/ \E o \in Outputs : OutputFetched(p, o) \/ OutputFetchFails(p, o)
  BY <1>1, <1>12 DEF Unshield, Age, Track, PreviewFetched, Closes, CloseAfterFetches,
                     CloseAfterRecovery, OutputFetched, OutputFetchFails, stream
<1>13. CASE \E r \in Ticks : Reconciles(r)
  BY <1>1, <1>13 DEF Reconciles, TickStarts, GetQueue, QueueKnown, QueueLate, TickSkips,
                     TickCompletes, TickWaits, TickAfterFetches, TickAfterRecovery, stream
<1>14. CASE UNCHANGED vars
  BY <1>1, <1>14 DEF vars
<1>15. CASE ServerWorks
  BY <1>4, <1>6, <1>8, <1>15 DEF ServerWorks
<1> QED
  BY <1>3, <1>6, <1>7, <1>8, <1>9, <1>9a, <1>10, <1>11, <1>12, <1>13, <1>14, <1>15 DEF Next

LEMMA LeftKept ==
  ASSUME TypeInv, [Next]_vars
  PROVE  \A p \in Prompts : Left(p) => Left(p)'
BY LeftForGood DEF Left

(* What the browser knows of, the server has known. *)
LEMMA TrackedIsKnown ==
  ASSUME TypeInv, LeftInv, [Next]_vars
  PROVE  \A p \in Prompts : Tracked(p)' \/ answered'[p] = "sent" => srv'[p] # "none"
<1> USE DEF client, server, stream, collected, outcome
<1> DEFINE Good == \A p \in Prompts : Tracked(p)' \/ answered'[p] = "sent" => srv'[p] # "none"
<1>0. \A p \in Prompts : srv[p] # "none" => srv'[p] # "none"
  BY LeftForGood
<1>1. ASSUME \A p \in Prompts : /\ Tracked(p)' => Tracked(p) \/ srv[p] # "none"
                                /\ answered'[p] = "sent" => answered[p] = "sent"
      PROVE  Good
  BY <1>0, <1>1 DEF LeftInv
<1>2. ASSUME UNCHANGED <<pending, answered>> PROVE Good
  BY <1>1, <1>2 DEF Tracked
<1>3. ASSUME NEW p \in Prompts, Accept(p) PROVE Good
  <2>1. srv'[p] # "none" /\ UNCHANGED pending
    BY <1>3 DEF Accept, TypeInv, TypeOK
  <2>2. \A q \in Prompts : q # p => answered'[q] = answered[q]
    BY <1>3 DEF Accept, TypeInv, TypeOK
  <2> QED
    BY <1>0, <2>1, <2>2 DEF LeftInv, Tracked
<1>4. ASSUME NEW p \in Prompts, Enqueue(p), srv[p] # "none",
             \A q \in Prompts : answered'[q] = "sent" => answered[q] = "sent"
      PROVE  Good
  <2>1. Range(pending') = Range(pending) \cup {p}
    BY <1>4, EnqueueType DEF TypeInv
  <2> QED
    BY <1>1, <1>4, <2>1 DEF Tracked
<1>5. ASSUME NEW p \in Prompts, Track(p) PROVE Good
  <2>1. answered[p] = "sent" /\ Enqueue(p) /\ \A q \in Prompts : answered'[q] = "sent" => answered[q] = "sent"
    BY <1>5 DEF Track, TypeInv, TypeOK
  <2> QED
    BY <1>4, <2>1 DEF LeftInv
<1>6. ASSUME Range(pending') \subseteq Range(pending), UNCHANGED answered PROVE Good
  BY <1>1, <1>6 DEF Tracked
<1>7. ASSUME NEW p \in Prompts, CompletePrompt(p) \/ RemovePrompt(p), UNCHANGED answered PROVE Good
  BY <1>6, <1>7, OthersType DEF CompletePrompt, RemovePrompt, TypeInv
<1>8. CASE Handles
  <2>0. chan # <<>> /\ UNCHANGED answered /\ Head(chan) = chan[1] /\ 1 \in 1..Len(chan) /\ Head(chan) \in Event
    <3>1. chan # <<>> /\ Taken
      BY <1>8 DEF Handles, OnQueued, OnExecuting, OnPreview, OnOutput, OnDone, OnError, OnCleared, NextIs
    <3> QED
      BY <3>1, TakenFacts, TypeFacts, FirstTaken DEF TypeInv
  <2>1. CASE OnQueued
    <3>1. Head(chan).kind = "queued" /\ Enqueue(Head(chan).prompt)
      BY <2>1 DEF OnQueued, NextIs
    <3>2. Head(chan).prompt \in Prompts /\ srv[Head(chan).prompt] # "none"
      BY <2>0, <3>1, EventTypes DEF LeftInv
    <3> QED
      BY <1>4, <2>0, <3>1, <3>2
  <2>2. CASE OnExecuting \/ OnPreview \/ OnOutput
    BY <1>2, <2>0, <2>2 DEF OnExecuting, OnPreview, OnOutput
  <2>3. CASE OnDone
    <3>1. Head(chan).prompt \in Prompts
      BY <2>0, <2>3, EventTypes DEF OnDone, NextIs
    <3> QED
      BY <1>2, <1>7, <2>0, <2>3, <3>1 DEF OnDone, CloseNow, Complete
  <2>4. CASE OnError
    <3>1. Head(chan).prompt \in Prompts
      BY <2>0, <2>4, EventTypes DEF OnError, NextIs
    <3> QED
      BY <1>7, <2>0, <2>4, <3>1 DEF OnError
  <2>5. CASE OnCleared
    <3>1. Range(pending') = {}
      BY <2>5 DEF OnCleared, CancelAll, Range
    <3> QED
      BY <1>6, <2>0, <3>1
  <2> QED
    BY <1>8, <2>1, <2>2, <2>3, <2>4, <2>5 DEF Handles
<1>9. CASE Clear \/ Disconnect \/ Lag \/ Reconnect \/ Connection
  BY <1>2, <1>9 DEF Clear, Disconnect, Lag, Reconnect, Connection, WorkerBreaks, WorkerReturns,
                    OnConnection
<1>10. CASE \E p \in Prompts : \/ Unshield(p) \/ Break(p) \/ Age(p) \/ PreviewFetched(p) \/ CloseAfterRecovery(p)
                               \/ \E o \in Outputs : OutputFetched(p, o) \/ OutputFetchFails(p, o)
  BY <1>2, <1>10 DEF Unshield, Break, Age, PreviewFetched, CloseAfterRecovery, OutputFetched, OutputFetchFails
<1>11. ASSUME NEW p \in Prompts, CloseAfterFetches(p) PROVE Good
  BY <1>7, <1>11 DEF CloseAfterFetches, CloseNow, Complete
<1>12. ASSUME NEW r \in Ticks, Reconciles(r) PROVE Good
  <2>1. CASE \/ TickStarts(r) \/ GetQueue(r) \/ QueueKnown(r) \/ QueueLate(r) \/ TickSkips(r)
             \/ TickWaits(r) \/ TickAfterRecovery(r)
    BY <1>2, <2>1 DEF TickStarts, GetQueue, QueueKnown, QueueLate, TickSkips, TickWaits,
                      TickAfterRecovery
  <2>2. CASE TickCompletes(r)
    <3>1. Head(tick[r].todo) \in Prompts
      BY <2>2, EntryType DEF TickCompletes
    <3> QED
      BY <1>7, <2>2, <3>1 DEF TickCompletes, GiveUpNow, Complete
  <2>3. CASE TickAfterFetches(r)
    <3>1. Head(tick[r].todo) \in Prompts
      BY <2>3, EntryType DEF TickAfterFetches
    <3> QED
      BY <1>7, <2>3, <3>1 DEF TickAfterFetches, GiveUpNow, Complete
  <2> QED
    BY <1>12, <2>1, <2>2, <2>3 DEF Reconciles
<1>13. CASE UNCHANGED vars
  BY <1>2, <1>13 DEF vars
<1>14. CASE ServerWorks
  BY <1>2, <1>14 DEF ServerWorks, Run, End, Forget, Output
<1> QED
  BY <1>3, <1>5, <1>8, <1>9, <1>10, <1>11, <1>12, <1>13, <1>14 DEF Next, Closes

(* A callback that goes on, or is woken, still looks back on what it saw.  *)
LEMMA LooksBackKept ==
  ASSUME NEW t \in Reconciler, NEW u \in Reconciler, LooksBack(t),
         \A p \in Prompts : Left(p) => Left(p)',
         u.pc \in Looked => t.pc \in Looked,
         u.old \subseteq t.old, u.silent \subseteq t.silent, u.snap = t.snap, u.late = t.late,
         u.pc \in {"query", "answered"} => u.pc = t.pc,
         u.pc \in {"await", "recover"} /\ u.guard = "aged" => Left(Head(u.todo))'
  PROVE  LooksBack(u)'
<1>1. u.old \cup u.silent \subseteq Prompts
  BY DEF Reconciler
<1> QED
  BY <1>1 DEF LooksBack, Left

LEMMA ReconcilerLooksBack ==
  ASSUME TypeInv, LeftInv, TypeInv', NEW r \in Ticks, Reconciles(r), \A p \in Prompts : Left(p) => Left(p)'
  PROVE  LooksBack(tick[r])'
<1>0. /\ tick \in [Ticks -> Reconciler] /\ tick[r] \in Reconciler /\ LooksBack(tick[r])
      /\ tick'[r] \in Reconciler
  BY DEF TypeInv, TypeOK, LeftInv
<1>1. CASE TickStarts(r)
  <2>1. tick'[r].pc = "query" /\ ~tick'[r].late
    BY <1>0, <1>1 DEF TickStarts, Sleeping
  <2> QED
    BY <2>1 DEF LooksBack, Looked
<1>2. CASE GetQueue(r)
  <2>1. /\ tick'[r].pc = "answered" /\ tick'[r].old = Range(pending) /\ tick'[r].silent = Range(pending)
        /\ tick'[r].late = tick[r].late /\ tick[r].pc = "query"
        /\ tick'[r].snap = {q \in InQueue : srv[q] = "held" => q \notin unshielded}
    BY <1>0, <1>2 DEF GetQueue, Reconciler
  <2>2. ASSUME NEW q \in Range(pending), q \notin tick'[r].snap PROVE Left(q)
    <3>1. q \in Prompts /\ srv[q] # "none"
      BY TypeFacts DEF TypeInv, LeftInv, Tracked
    <3>2. srv[q] \in {"held", "running", "ended", "gone"}
      BY <3>1 DEF TypeInv, TypeOK
    <3> QED
      BY <2>1, <2>2, <3>1, <3>2 DEF Left, InQueue
  <2>3. Range(pending) \subseteq Prompts
    BY TypeFacts DEF TypeInv
  <2> QED
    BY <1>0, <2>1, <2>2, <2>3 DEF LooksBack
<1>3. CASE QueueKnown(r)
  <2>1. tick'[r] = IF pending = <<>> THEN Sleeping ELSE InLoop(tick[r])
    BY <1>0, <1>3 DEF QueueKnown
  <2>2. CASE pending = <<>>
    <3>1. tick'[r].pc = "idle"
      BY <2>1, <2>2 DEF Sleeping
    <3> QED
      BY <3>1 DEF LooksBack, Looked
  <2>3. CASE pending # <<>>
    <3>1. /\ tick'[r].pc = "loop" /\ tick'[r].old \subseteq tick[r].old
          /\ tick'[r].silent \subseteq tick[r].silent /\ tick'[r].snap = tick[r].snap
          /\ tick'[r].late = tick[r].late
      <4>1. tick'[r] = InLoop(tick[r])
        BY <2>1, <2>3
      <4>2. /\ InLoop(tick[r]).pc = "loop" /\ InLoop(tick[r]).snap = tick[r].snap
            /\ InLoop(tick[r]).old = tick[r].old \cap aged
            /\ InLoop(tick[r]).silent = {p \in tick[r].silent : activity[p] = "aged"}
            /\ InLoop(tick[r]).late = tick[r].late
        BY <1>0 DEF InLoop, Reconciler
      <4> QED
        BY <4>1, <4>2
    <3>2. tick[r].pc \in Looked
      BY <1>3 DEF QueueKnown, Looked
    <3> QED
      BY <1>0, <3>1, <3>2, LooksBackKept
  <2> QED
    BY <2>2, <2>3
<1>3a. CASE QueueLate(r)
  <2>1. tick'[r] = IF pending = <<>> THEN Sleeping ELSE InLoopLate(tick[r])
    BY <1>0, <1>3a DEF QueueLate
  <2>2. CASE pending = <<>>
    <3>1. tick'[r].pc = "idle"
      BY <2>1, <2>2 DEF Sleeping
    <3> QED
      BY <3>1 DEF LooksBack, Looked
  <2>3. CASE pending # <<>>
    <3>1. tick'[r].pc = "loop" /\ tick'[r].late
      BY <1>0, <2>1, <2>3 DEF InLoopLate, Reconciler
    <3> QED
      BY <3>1 DEF LooksBack
  <2> QED
    BY <2>2, <2>3
<1>4. ASSUME tick[r].pc \in Looked, tick'[r] = GoOn(tick[r]) PROVE LooksBack(tick[r])'
  <2>1. CASE GoOn(tick[r]).pc = "idle"
    BY <1>4, <2>1 DEF LooksBack, Looked
  <2>2. CASE GoOn(tick[r]).pc = "loop"
    <3>1. /\ tick'[r].pc = "loop" /\ tick'[r].old = tick[r].old
          /\ tick'[r].silent = tick[r].silent /\ tick'[r].snap = tick[r].snap
          /\ tick'[r].late = tick[r].late
      BY <1>0, <1>4, <2>2, GoOnType
    <3> QED
      BY <1>0, <1>4, <3>1, LooksBackKept
  <2> QED
    BY <1>0, <2>1, <2>2, GoOnType
<1>5. CASE TickSkips(r)
  <2>1. tick'[r] = GoOn(tick[r]) /\ tick[r].pc \in Looked
    BY <1>0, <1>5 DEF TickSkips, Looked
  <2> QED
    BY <1>4, <2>1
<1>6. ASSUME NEW p \in Prompts, tick[r].pc = "loop", Overdue(tick[r], p), GuardOf(tick[r], p) = "aged"
      PROVE  Left(p)'
  <2>2. activity[p] # "reset" /\ ~tick[r].late
    BY <1>6 DEF GuardOf
  <2>3. p \in (tick[r].old \cup tick[r].silent) \ tick[r].snap
    BY <1>6, <2>2 DEF Overdue, Quiet
  <2>4. Left(p)
    BY <1>0, <1>6, <2>2, <2>3 DEF LooksBack, Looked
  <2> QED
    BY <2>4
<1>7. ASSUME NEW guard, NEW p, p = Head(tick[r].todo), GiveUpNow(r, p, guard), tick[r].pc \in Looked, guard = "aged" => Left(p)'
      PROVE  LooksBack(tick[r])'
  <2>1. CASE NothingToShow(p)
    <3>1. tick' = [tick EXCEPT ![r] = [tick[r] EXCEPT !.pc = "recover", !.waits = {}, !.guard = guard]]
      BY <1>7, <2>1 DEF GiveUpNow
    <3>2. /\ tick'[r].pc = "recover" /\ tick'[r].old = tick[r].old /\ tick'[r].silent = tick[r].silent
          /\ tick'[r].snap = tick[r].snap /\ tick'[r].guard = guard /\ tick'[r].todo = tick[r].todo
          /\ tick'[r].late = tick[r].late
      BY <1>0, <3>1 DEF Reconciler
    <3> QED
      BY <1>0, <1>7, <3>2, LooksBackKept
  <2>2. CASE ~NothingToShow(p)
    <3>1. tick'[r] = GoOn(tick[r])
      BY <1>0, <1>7, <2>2 DEF GiveUpNow
    <3> QED
      BY <1>4, <1>7, <3>1
  <2> QED
    BY <2>1, <2>2
<1>8. CASE TickCompletes(r)
  <2>1. PICK p \in Prompts : /\ p = Head(tick[r].todo) /\ tick[r].pc = "loop"
                             /\ Overdue(tick[r], p) /\ GiveUpNow(r, p, GuardOf(tick[r], p))
    BY <1>8, EntryType DEF TickCompletes
  <2>2. GuardOf(tick[r], p) = "aged" => Left(p)'
    BY <1>6, <2>1
  <2> QED
    BY <1>7, <2>1, <2>2 DEF Looked
<1>9. CASE TickWaits(r)
  <2>0. PICK p \in Prompts : /\ p = Head(tick[r].todo) /\ tick[r].pc = "loop"
                             /\ Overdue(tick[r], p)
    BY <1>9, EntryType DEF TickWaits
  <2>1. /\ tick'[r].pc = "await" /\ tick'[r].old = tick[r].old /\ tick'[r].silent = tick[r].silent
        /\ tick'[r].snap = tick[r].snap /\ tick'[r].guard = GuardOf(tick[r], p)
        /\ tick'[r].todo = tick[r].todo /\ tick'[r].late = tick[r].late
    BY <1>0, <1>9, <2>0 DEF TickWaits, Reconciler
  <2>2. tick[r].pc \in Looked /\ (GuardOf(tick[r], p) = "aged" => Left(p)')
    BY <1>6, <2>0 DEF Looked
  <2> QED
    BY <1>0, <2>0, <2>1, <2>2, LooksBackKept
<1>10. CASE TickAfterFetches(r)
  <2>1. PICK p \in Prompts : /\ tick[r].pc = "await" /\ GiveUpNow(r, p, tick[r].guard)
                             /\ p = Head(tick[r].todo)
    BY <1>10, EntryType DEF TickAfterFetches
  <2>2. tick[r].guard = "aged" => Left(p)'
    BY <1>0, <2>1 DEF LooksBack
  <2> QED
    BY <1>7, <2>1, <2>2 DEF Looked
<1>11. CASE TickAfterRecovery(r)
  <2>1. tick'[r] = GoOn(tick[r]) /\ tick[r].pc \in Looked
    BY <1>0, <1>11 DEF TickAfterRecovery, Looked
  <2> QED
    BY <1>4, <2>1
<1> QED
  BY <1>1, <1>2, <1>3, <1>3a, <1>5, <1>8, <1>9, <1>10, <1>11 DEF Reconciles

LEMMA NextLeftInv ==
  ASSUME TypeInv, LeftInv, [Next]_vars
  PROVE  LeftInv'
<1>1. TypeInv' /\ \A p \in Prompts : Left(p) => Left(p)'
  BY NextTypeInv, LeftKept
<1>2. ASSUME NEW r \in Ticks PROVE LooksBack(tick[r])'
  <2>0. LooksBack(tick[r]) /\ tick[r] \in Reconciler /\ tick'[r] \in Reconciler
    BY <1>1 DEF LeftInv, TypeInv, TypeOK
  <2>1. CASE Reconciles(r)
    BY <1>1, <2>1, ReconcilerLooksBack
  <2>2. CASE tick'[r] = tick[r]
    <3>1. tick'[r].pc \in {"await", "recover"} => Head(tick[r].todo) \in Prompts
      BY <2>2, EntryType
    <3> QED
      BY <1>1, <2>0, <2>2, <3>1, LooksBackKept DEF LooksBack
  <2>3. CASE \E p : Heard(p)
    <3>1. /\ tick'[r].pc = tick[r].pc /\ tick'[r].todo = tick[r].todo
          /\ tick'[r].guard = tick[r].guard
          /\ tick'[r].old = tick[r].old /\ tick'[r].snap = tick[r].snap
          /\ tick'[r].silent \subseteq tick[r].silent /\ tick'[r].late = tick[r].late
      BY <2>3, TickHeard DEF TypeInv
    <3>2. tick[r].pc \in {"await", "recover"} => Head(tick[r].todo) \in Prompts
      BY EntryType
    <3> QED
      BY <1>1, <2>0, <3>1, <3>2, LooksBackKept DEF LooksBack
  <2>4. CASE \E q \in Ticks : q # r /\ Reconciles(q)
    <3>1. tick'[r] = tick[r]
      BY <2>4 DEF Reconciles, TickStarts, GetQueue, QueueKnown, QueueLate, TickSkips, TickCompletes,
                  TickWaits, TickAfterFetches, TickAfterRecovery, GiveUpNow, TypeInv, TypeOK
    <3> QED
      BY <2>2, <3>1
  <2> QED
    BY <2>1, <2>2, <2>3, <2>4, TickKept
<1> QED
  BY <1>2, TrackedIsKnown, AnnouncedPrompts DEF LeftInv

LEMMA InitLeft == Init => LeftInv
<1> SUFFICES ASSUME Init PROVE LeftInv
  OBVIOUS
<1>1. Len(chan) = 0 /\ \A p \in Prompts : ~Tracked(p) /\ answered[p] # "sent"
  BY DEF Init, Tracked, Range
<1>2. \A r \in Ticks : LooksBack(tick[r])
  BY DEF Init, LooksBack, Looked, Sleeping
<1> QED
  BY <1>1, <1>2 DEF LeftInv

(* A prompt that was quiet for half a minute is given up only when the     *)
(* server has forgotten it, or has left it out of its queue: the time is   *)
(* read after the look at the queue, less than half a minute after it, and *)
(* so the prompt was tracked then.  Nothing is said of a later answer, nor *)
(* of a prompt whose time a reconnection has put back.                     *)
THEOREM GivenUpIsGone == Spec => []GivenUpWhenGone
<1>1. Init => TypeInv /\ LeftInv
  BY InitType, InitLeft DEF TypeInv, Busy, Init, Sleeping
<1>2. (TypeInv /\ LeftInv) /\ [Next]_vars => (TypeInv /\ LeftInv)'
  BY NextTypeInv, NextLeftInv
<1>3. LeftInv => GivenUpWhenGone
  BY DEF LeftInv, LooksBack, Left, GivenUpWhenGone
<1> QED
  BY <1>1, <1>2, <1>3, PTL DEF Spec
-----------------------------------------------------------------------------
(***************************************************************************)
(* What becomes of the images of a prompt that was not interrupted and of  *)
(* which nothing is lost: its events reach a browser that tracks it, until *)
(* the last one is handled, and then no more images come.                  *)
(***************************************************************************)

Spared(p) == p \notin missed \cup unshielded

Is(e, kind, p) == e.kind = kind /\ e.prompt = p

(* Is p tracked once the first i events of s are handled, if it is tracked *)
(* before them just if b?                                                  *)
TrackedThen(b, s, i, p) ==
  \/ b /\ \A j \in 1..i : s[j].kind # "cleared"
  \/ \E k \in 1..i : Is(s[k], "queued", p) /\ \A j \in (k + 1)..i : s[j].kind # "cleared"

(* The images that are on their way. *)
Announced(p) == {chan[i].output : i \in {j \in 1..Len(chan) : Is(chan[j], "output", p)}}

Ended(p) == srv[p] \in {"ended", "gone"}

(* The last event of p is handled. *)
Finished(p) == Ended(p) /\ \A i \in 1..Len(chan) : ~Is(chan[i], "done", p)

(* The browser hears no more of p. *)
Over(p) == srv[p] = "gone" /\ \A i \in 1..Len(chan) : ~About(chan[i], p)

(* The events of p come in order, to a browser that tracks it. *)
EventsInOrder(p) ==
  /\ \A i \in 1..Len(chan) : ~Is(chan[i], "error", p)
  /\ \A i \in 1..Len(chan) : Is(chan[i], "output", p) =>
       /\ srv[p] \notin {"none", "held"}
       /\ TrackedThen(Tracked(p), chan, i - 1, p)
       /\ Ended(p) => \E j \in 1..Len(chan) : Is(chan[j], "done", p)
  /\ \A i \in 1..Len(chan) : Is(chan[i], "done", p) =>
       /\ Ended(p) /\ TrackedThen(Tracked(p), chan, i - 1, p)
       /\ \A j \in (i + 1)..Len(chan) : ~Is(chan[j], "output", p) /\ ~Is(chan[j], "done", p)
  /\ link.open /\ srv[p] \in {"held", "running"} => TrackedThen(Tracked(p), chan, Len(chan), p)

(* Until the last event every image is collected, fetched, or on its way;  *)
(* after it there are all of them, or none.                                *)
ImagesKept(p) ==
  /\ activity[p] # "reset" /\ (Ended(p) => cache[p] = OutputsOf[p])
  /\ fetching[p] \subseteq registered[p]
  /\ shown[p] > 0 => gallery[p] = OutputsOf[p]
  /\ ~Finished(p) => /\ shown[p] = 0 /\ closing[p].pc = "idle"
                     /\ cache[p] = images[p] \cup fetching[p] \cup Announced(p)
  /\ Finished(p) => images[p] \cup fetching[p] \in {{}, OutputsOf[p]}
  /\ closing[p].pc = "await" => fetching[p] \subseteq closing[p].waits

(* A callback gives p up when no more is heard of it, and waits for all    *)
(* the images that are fetched.                                            *)
Waits(t, p) ==
  /\ t.pc \in {"loop", "await", "recover"} /\ p \in (t.old \cup t.silent) \ t.snap => Over(p)
  /\ t.pc \in {"await", "recover"} /\ Head(t.todo) = p => Over(p)
  /\ t.pc = "await" /\ Head(t.todo) = p => fetching[p] \subseteq t.waits

SparedInv ==
  /\ ~link.open => chan = <<>>
  /\ \A p \in Prompts : Spared(p) =>
       /\ EventsInOrder(p) /\ ImagesKept(p)
       /\ \A r \in Ticks : Waits(tick[r], p)

-----------------------------------------------------------------------------
(* Tracked from the events before. *)

LEMMA ThenMore ==
  ASSUME NEW V, NEW s \in Seq(V), NEW t \in Seq(V), NEW b, NEW c, b => c,
         NEW i \in 0..Len(s), NEW p, TrackedThen(b, s, i, p)
  PROVE  TrackedThen(c, s \o t, i, p)
<1>1. \A j \in 1..i : (s \o t)[j] = s[j]
  BY ConcatProperties
<1>2. \A k \in 1..i : (k + 1)..i \subseteq 1..i
  OBVIOUS
<1> QED
  BY <1>1, <1>2 DEF TrackedThen

LEMMA ThenOn ==
  ASSUME NEW V, NEW s \in Seq(V), NEW t \in Seq(V), NEW b, NEW p, TrackedThen(b, s, Len(s), p),
         \A j \in 1..Len(t) : t[j].kind # "cleared",
         NEW i \in Len(s)..Len(s \o t)
  PROVE  TrackedThen(b, s \o t, i, p)
<1>1. /\ \A j \in 1..Len(s) : (s \o t)[j] = s[j]
      /\ \A j \in (Len(s) + 1)..i : j - Len(s) \in 1..Len(t) /\ (s \o t)[j] = t[j - Len(s)]
      /\ Len(s) \in Nat /\ i \in Nat /\ Len(s) <= i
  BY ConcatProperties
<1>2. \A j \in (Len(s) + 1)..i : (s \o t)[j].kind # "cleared"
  BY <1>1
<1>3. CASE b /\ \A j \in 1..Len(s) : s[j].kind # "cleared"
  <2>1. \A j \in 1..i : j \in 1..Len(s) \/ j \in (Len(s) + 1)..i
    BY <1>1
  <2> QED
    BY <1>1, <1>2, <1>3, <2>1 DEF TrackedThen
<1>4. CASE \E k \in 1..Len(s) : Is(s[k], "queued", p) /\ \A j \in (k + 1)..Len(s) : s[j].kind # "cleared"
  <2>1. PICK k \in 1..Len(s) : Is(s[k], "queued", p) /\ \A j \in (k + 1)..Len(s) : s[j].kind # "cleared"
    BY <1>4
  <2>2. k \in 1..i /\ Is((s \o t)[k], "queued", p)
    BY <1>1, <2>1
  <2>3. \A j \in (k + 1)..i : (j \in (k + 1)..Len(s) /\ j \in 1..Len(s)) \/ j \in (Len(s) + 1)..i
    BY <1>1
  <2>4. \A j \in (k + 1)..i : (s \o t)[j].kind # "cleared"
    BY <1>1, <1>2, <2>1, <2>3
  <2> QED
    BY <2>2, <2>4 DEF TrackedThen
<1> QED
  BY <1>3, <1>4 DEF TrackedThen

LEMMA ThenTaken ==
  ASSUME NEW V, NEW s \in Seq(V), s # <<>>, NEW b, NEW c, NEW p,
         (b /\ s[1].kind # "cleared") \/ Is(s[1], "queued", p) => c,
         NEW i \in 1..Len(s), TrackedThen(b, s, i, p)
  PROVE  TrackedThen(c, Tail(s), i - 1, p)
<1>1. /\ \A j \in 1..(i - 1) : Tail(s)[j] = s[j + 1] /\ j + 1 \in 1..i
      /\ Len(s) \in Nat /\ i \in Nat /\ i >= 1
  BY FirstTaken
<1>2. CASE b /\ \A j \in 1..i : s[j].kind # "cleared"
  <2>1. c
    BY <1>1, <1>2
  <2> QED
    BY <1>1, <1>2, <2>1 DEF TrackedThen
<1>3. ASSUME NEW k \in 1..i, Is(s[k], "queued", p), \A j \in (k + 1)..i : s[j].kind # "cleared"
      PROVE  TrackedThen(c, Tail(s), i - 1, p)
  <2>1. CASE k = 1
    <3>1. c /\ \A j \in 1..(i - 1) : j + 1 \in (k + 1)..i
      BY <1>1, <1>3, <2>1
    <3> QED
      BY <1>1, <1>3, <3>1 DEF TrackedThen
  <2>2. CASE k # 1
    <3>1. k - 1 \in 1..(i - 1) /\ \A j \in ((k - 1) + 1)..(i - 1) : j + 1 \in (k + 1)..i /\ j \in 1..(i - 1)
      BY <1>1, <1>3, <2>2
    <3>2. Tail(s)[k - 1] = s[k]
      BY <1>1, <3>1
    <3> QED
      BY <1>1, <1>3, <3>1, <3>2 DEF TrackedThen
  <2> QED
    BY <2>1, <2>2
<1> QED
  BY <1>2, <1>3 DEF TrackedThen

(* Of the prompts in the queue it hears when the stream is opened. *)
LEMMA ThenQueued ==
  ASSUME NEW V, NEW s \in Seq(V), \A j \in 1..Len(s) : s[j].kind # "cleared",
         NEW p, NEW k \in 1..Len(s), Is(s[k], "queued", p), NEW b
  PROVE  TrackedThen(b, s, Len(s), p)
<1>1. \A j \in (k + 1)..Len(s) : j \in 1..Len(s)
  OBVIOUS
<1> QED
  BY <1>1 DEF TrackedThen

-----------------------------------------------------------------------------
(* The order of the events of p. *)

(* Neither in or out of the queue, nor done. *)
SameStage(p) ==
  /\ srv[p] \notin {"none", "held"} => srv'[p] \notin {"none", "held"}
  /\ Ended(p)' <=> Ended(p)
  /\ srv'[p] \in {"held", "running"} => srv[p] \in {"held", "running"}

LEMMA ThenStill ==
  ASSUME NEW b, NEW c, b => c, NEW s, NEW i, NEW p, TrackedThen(b, s, i, p)
  PROVE  TrackedThen(c, s, i, p)
BY DEF TrackedThen

(* No event comes or goes, and p is still tracked. *)
LEMMA OrderKept ==
  ASSUME NEW p, EventsInOrder(p), UNCHANGED <<chan, link.open>>, Tracked(p) => Tracked(p)', SameStage(p)
  PROVE  EventsInOrder(p)'
<1>1. \A i : TrackedThen(Tracked(p), chan, i, p) => TrackedThen(Tracked(p)', chan', i, p)
  BY ThenStill
<1> QED
  BY <1>1 DEF EventsInOrder, SameStage

(* No more events of p matter. *)
LEMMA OrderQuiet ==
  ASSUME NEW p, \A i \in 1..Len(chan') : \A k \in {"output", "done", "error"} : ~Is(chan'[i], k, p),
         ~(link.open' /\ srv'[p] \in {"held", "running"})
  PROVE  EventsInOrder(p)'
BY DEF EventsInOrder

(* Where an event is after others were sent. *)
LEMMA EmitPlaces ==
  ASSUME TypeOK, NEW events \in Seq(Event), Emit(events)
  PROVE  /\ \A i \in 1..Len(chan) : i \in 1..Len(chan') /\ chan'[i] = chan[i]
         /\ \A i \in 1..Len(chan') : \/ i \in 1..Len(chan)
                                     \/ \E j \in 1..Len(events) : chan'[i] = events[j] /\ i = Len(chan) + j
         /\ Len(chan) \in Nat
<1>0. chan \in Seq(Event)
  BY DEF TypeOK
<1>1. CASE chan' = chan
  BY <1>0, <1>1
<1>2. CASE chan' = chan \o events
  <2>1. /\ \A i \in 1..Len(chan) : i \in 1..Len(chan') /\ chan'[i] = chan[i]
        /\ Len(chan) \in Nat /\ Len(events) \in Nat /\ Len(chan') = Len(chan) + Len(events)
    BY <1>0, <1>2, ConcatProperties
  <2>2. ASSUME NEW i \in 1..Len(chan'), i \notin 1..Len(chan)
        PROVE  i - Len(chan) \in 1..Len(events) /\ chan'[i] = events[i - Len(chan)] /\ i = Len(chan) + (i - Len(chan))
    BY <1>0, <1>2, <2>1, <2>2, ConcatProperties
  <2> QED
    BY <2>1, <2>2
<1> QED
  BY <1>1, <1>2 DEF Emit

(* Other events are sent. *)
LEMMA OrderEmitted ==
  ASSUME TypeOK, NEW p, EventsInOrder(p), NEW events \in Seq(Event), Emit(events),
         \A j \in 1..Len(events) : /\ events[j].kind # "cleared"
                                   /\ \A k \in {"output", "done", "error"} : ~Is(events[j], k, p),
         UNCHANGED <<pending, link.open>>, SameStage(p)
  PROVE  EventsInOrder(p)'
<1>1. /\ \A i \in 1..Len(chan) : i \in 1..Len(chan') /\ chan'[i] = chan[i]
      /\ \A i \in 1..Len(chan') : \A k \in {"output", "done", "error"} :
           Is(chan'[i], k, p) => i \in 1..Len(chan)
      /\ Len(chan) \in Nat
  BY EmitPlaces
<1>2. Tracked(p)' = Tracked(p) /\ chan \in Seq(Event)
  BY DEF Tracked, TypeOK
<1>3. ASSUME NEW i \in 0..Len(chan), TrackedThen(Tracked(p), chan, i, p)
      PROVE  TrackedThen(Tracked(p), chan', i, p)
  BY <1>2, <1>3, ThenMore DEF Emit
<1>4. ASSUME link.open, TrackedThen(Tracked(p), chan, Len(chan), p)
      PROVE  TrackedThen(Tracked(p), chan', Len(chan'), p)
  <2>1. chan' = chan \o events /\ Len(chan') \in Len(chan)..Len(chan \o events)
    BY <1>1, <1>2, <1>4, ConcatProperties DEF Emit
  <2> QED
    BY <1>2, <1>4, <2>1, ThenOn
<1>5. \A i \in 1..Len(chan') : ~Is(chan'[i], "error", p)
  BY <1>1 DEF EventsInOrder
<1>6. ASSUME NEW i \in 1..Len(chan'), Is(chan'[i], "output", p)
      PROVE  /\ srv'[p] \notin {"none", "held"}
             /\ TrackedThen(Tracked(p)', chan', i - 1, p)
             /\ Ended(p)' => \E j \in 1..Len(chan') : Is(chan'[j], "done", p)
  <2>1. i \in 1..Len(chan) /\ i - 1 \in 0..Len(chan) /\ Is(chan[i], "output", p)
    BY <1>1, <1>6
  <2>2. TrackedThen(Tracked(p), chan, i - 1, p) /\ srv[p] \notin {"none", "held"}
        /\ (Ended(p) => \E j \in 1..Len(chan) : Is(chan[j], "done", p))
    BY <2>1 DEF EventsInOrder
  <2> QED
    BY <1>1, <1>2, <1>3, <2>1, <2>2 DEF SameStage
<1>7. ASSUME NEW i \in 1..Len(chan'), Is(chan'[i], "done", p)
      PROVE  /\ Ended(p)' /\ TrackedThen(Tracked(p)', chan', i - 1, p)
             /\ \A j \in (i + 1)..Len(chan') : ~Is(chan'[j], "output", p) /\ ~Is(chan'[j], "done", p)
  <2>1. i \in 1..Len(chan) /\ i - 1 \in 0..Len(chan) /\ Is(chan[i], "done", p)
    BY <1>1, <1>7
  <2>2. TrackedThen(Tracked(p), chan, i - 1, p) /\ Ended(p)
        /\ \A j \in (i + 1)..Len(chan) : ~Is(chan[j], "output", p) /\ ~Is(chan[j], "done", p)
    BY <2>1 DEF EventsInOrder
  <2>3. \A j \in (i + 1)..Len(chan') : \A k \in {"output", "done"} :
          Is(chan'[j], k, p) => j \in (i + 1)..Len(chan) /\ chan'[j] = chan[j]
    BY <1>1, <2>1
  <2> QED
    BY <1>2, <1>3, <2>1, <2>2, <2>3 DEF SameStage
<1>8. link.open' /\ srv'[p] \in {"held", "running"} => TrackedThen(Tracked(p)', chan', Len(chan'), p)
  BY <1>2, <1>4 DEF EventsInOrder, SameStage
<1> QED
  BY <1>5, <1>6, <1>7, <1>8 DEF EventsInOrder

(* The first event is handled, and not the last of p. *)
LEMMA OrderTaken ==
  ASSUME TypeOK, NEW p, EventsInOrder(p), chan # <<>>, Taken, ~Is(chan[1], "done", p),
         (Tracked(p) /\ chan[1].kind # "cleared") \/ Is(chan[1], "queued", p) => Tracked(p)'
  PROVE  EventsInOrder(p)'
<1>1. /\ chan \in Seq(Event) /\ chan' = Tail(chan) /\ UNCHANGED <<srv, link.open>>
      /\ \A i \in 1..Len(chan') : i + 1 \in 1..Len(chan) /\ i \in 1..Len(chan) /\ chan'[i] = chan[i + 1]
      /\ Len(chan') = Len(chan) - 1 /\ Len(chan) \in Nat
  BY TakenElems, FirstTaken DEF Taken, server, TypeOK
<1>2. Ended(p)' = Ended(p)
  BY <1>1 DEF Ended
<1>3. ASSUME NEW i \in 1..Len(chan), TrackedThen(Tracked(p), chan, i, p)
      PROVE  TrackedThen(Tracked(p)', chan', i - 1, p)
  BY <1>1, <1>3, ThenTaken
<1>4. ASSUME NEW i \in 1..Len(chan'), TrackedThen(Tracked(p), chan, (i + 1) - 1, p)
      PROVE  TrackedThen(Tracked(p)', chan', i - 1, p)
  <2>1. (i + 1) - 1 = i
    OBVIOUS
  <2> QED
    BY <1>1, <1>3, <1>4, <2>1
<1>5. \A i \in 1..Len(chan') : ~Is(chan'[i], "error", p)
  BY <1>1 DEF EventsInOrder
<1>6. ASSUME NEW i \in 1..Len(chan'), Is(chan'[i], "output", p)
      PROVE  /\ srv'[p] \notin {"none", "held"}
             /\ TrackedThen(Tracked(p)', chan', i - 1, p)
             /\ Ended(p)' => \E j \in 1..Len(chan') : Is(chan'[j], "done", p)
  <2>1. /\ i + 1 \in 1..Len(chan) /\ Is(chan[i + 1], "output", p)
        /\ TrackedThen(Tracked(p), chan, (i + 1) - 1, p) /\ srv[p] \notin {"none", "held"}
        /\ (Ended(p) => \E j \in 1..Len(chan) : Is(chan[j], "done", p))
    BY <1>1, <1>6 DEF EventsInOrder
  <2>2. \A j \in 1..Len(chan) : Is(chan[j], "done", p) => j - 1 \in 1..Len(chan') /\ chan'[j - 1] = chan[j]
    BY <1>1
  <2> QED
    BY <1>1, <1>2, <1>4, <2>1, <2>2
<1>7. ASSUME NEW i \in 1..Len(chan'), Is(chan'[i], "done", p)
      PROVE  /\ Ended(p)' /\ TrackedThen(Tracked(p)', chan', i - 1, p)
             /\ \A j \in (i + 1)..Len(chan') : ~Is(chan'[j], "output", p) /\ ~Is(chan'[j], "done", p)
  <2>1. /\ i + 1 \in 1..Len(chan) /\ Is(chan[i + 1], "done", p)
        /\ TrackedThen(Tracked(p), chan, (i + 1) - 1, p) /\ Ended(p)
        /\ \A j \in ((i + 1) + 1)..Len(chan) : ~Is(chan[j], "output", p) /\ ~Is(chan[j], "done", p)
    BY <1>1, <1>7 DEF EventsInOrder
  <2>2. \A j \in (i + 1)..Len(chan') : j \in 1..Len(chan') /\ j + 1 \in ((i + 1) + 1)..Len(chan)
    BY <1>1
  <2> QED
    BY <1>1, <1>2, <1>4, <2>1, <2>2
<1>8. link.open' /\ srv'[p] \in {"held", "running"} => TrackedThen(Tracked(p)', chan', Len(chan'), p)
  <2>1. Len(chan) \in 1..Len(chan) /\ Len(chan) - 1 = Len(chan')
    BY <1>1, FirstTaken
  <2> QED
    BY <1>1, <1>3, <2>1 DEF EventsInOrder
<1> QED
  BY <1>5, <1>6, <1>7, <1>8 DEF EventsInOrder

(* One more event is sent. *)
LEMMA AppendPlaces ==
  ASSUME TypeOK, NEW e \in Event, chan' = chan \o <<e>>, UNCHANGED pending, NEW p
  PROVE  /\ Len(chan') = Len(chan) + 1 /\ Len(chan) \in Nat
         /\ \A i \in 1..Len(chan) : chan'[i] = chan[i] /\ i \in 1..Len(chan') /\ i - 1 \in 0..Len(chan)
         /\ chan'[Len(chan) + 1] = e
         /\ \A i \in 1..Len(chan') : i \in 1..Len(chan) \/ i = Len(chan) + 1
         /\ \A i \in 0..Len(chan) : TrackedThen(Tracked(p), chan, i, p) =>
                                      TrackedThen(Tracked(p)', chan', i, p)
<1>1. chan \in Seq(Event) /\ <<e>> \in Seq(Event) /\ Len(<<e>>) = 1 /\ <<e>>[1] = e
  BY DEF TypeOK
<1>2. Tracked(p)' = Tracked(p)
  BY DEF Tracked
<1>3. \A i \in 0..Len(chan) : TrackedThen(Tracked(p), chan, i, p) => TrackedThen(Tracked(p)', chan', i, p)
  BY <1>1, <1>2, ThenMore
<1>4. /\ Len(chan') = Len(chan) + 1 /\ Len(chan) \in Nat
      /\ \A i \in 1..Len(chan) : chan'[i] = chan[i]
      /\ chan'[Len(chan) + 1] = e
  BY <1>1, ConcatProperties
<1> QED
  BY <1>3, <1>4

(* p is new in the queue. *)
LEMMA OrderAccepted ==
  ASSUME TypeOK, NEW p \in Prompts, EventsInOrder(p), srv[p] = "none",
         Emit(<<OfKind("queued", p)>>), UNCHANGED <<pending, link.open>>, srv'[p] = "held"
  PROVE  EventsInOrder(p)'
<1> DEFINE e == OfKind("queued", p)
<1>0. e \in Event /\ Is(e, "queued", p) /\ Emit(<<e>>)
  BY EventTypes, KindOf DEF Is
<1> HIDE DEF e
<1>1. ~Ended(p) /\ ~Ended(p)'
  BY DEF Ended
<1>2. \A i \in 1..Len(chan) : \A k \in {"output", "done", "error"} : ~Is(chan[i], k, p)
  BY <1>1 DEF EventsInOrder
<1>3. CASE chan' = chan /\ ~link.open
  BY <1>2, <1>3, OrderQuiet
<1>4. CASE chan' = chan \o <<e>>
  <2>1. /\ Len(chan') = Len(chan) + 1 /\ Len(chan) \in Nat
        /\ \A i \in 1..Len(chan) : chan'[i] = chan[i]
        /\ chan'[Len(chan) + 1] = e
        /\ \A i \in 1..Len(chan') : i \in 1..Len(chan) \/ i = Len(chan) + 1
    BY <1>0, <1>4, AppendPlaces
  <2>2. \A i \in 1..Len(chan') : \A k \in {"output", "done", "error"} : ~Is(chan'[i], k, p)
    BY <1>0, <1>2, <2>1 DEF Is
  <2>3. Len(chan') \in 1..Len(chan') /\ \A j \in (Len(chan') + 1)..Len(chan') : FALSE
    BY <2>1
  <2>4. Is(chan'[Len(chan')], "queued", p)
    BY <1>0, <2>1
  <2>5. TrackedThen(Tracked(p)', chan', Len(chan'), p)
    BY <2>3, <2>4 DEF TrackedThen
  <2> QED
    BY <2>2, <2>5 DEF EventsInOrder
<1> QED
  BY <1>0, <1>3, <1>4 DEF Emit

(* An image of p is announced. *)
LEMMA OrderOutput ==
  ASSUME TypeOK, NEW p \in Prompts, EventsInOrder(p), srv[p] = "running", link.open,
         NEW e \in Event, Is(e, "output", p), Emit(<<e>>), UNCHANGED <<pending, link.open, srv>>
  PROVE  EventsInOrder(p)'
<1>0. chan' = chan \o <<e>> /\ <<e>> \in Seq(Event) /\ chan \in Seq(Event)
  BY DEF Emit, TypeOK
<1>1. /\ Len(chan') = Len(chan) + 1 /\ Len(chan) \in Nat
      /\ \A i \in 1..Len(chan) : chan'[i] = chan[i] /\ i \in 1..Len(chan') /\ i - 1 \in 0..Len(chan)
      /\ chan'[Len(chan) + 1] = e
      /\ \A i \in 1..Len(chan') : i \in 1..Len(chan) \/ i = Len(chan) + 1
      /\ \A i \in 0..Len(chan) : TrackedThen(Tracked(p), chan, i, p) =>
                                   TrackedThen(Tracked(p)', chan', i, p)
  BY <1>0, AppendPlaces
<1>2. ~Ended(p) /\ ~Ended(p)' /\ Tracked(p)' = Tracked(p)
  BY DEF Ended, Tracked
<1>3. \A i \in 1..Len(chan) : ~Is(chan[i], "error", p) /\ ~Is(chan[i], "done", p)
  BY <1>2 DEF EventsInOrder
<1>4. \A i \in 1..Len(chan') : ~Is(chan'[i], "error", p) /\ ~Is(chan'[i], "done", p)
  BY <1>1, <1>3 DEF Is
<1>5. TrackedThen(Tracked(p), chan, Len(chan), p)
  BY DEF EventsInOrder
<1>6. ASSUME NEW i \in 1..Len(chan'), Is(chan'[i], "output", p)
      PROVE  TrackedThen(Tracked(p)', chan', i - 1, p)
  <2>1. CASE i \in 1..Len(chan)
    <3>1. TrackedThen(Tracked(p), chan, i - 1, p)
      BY <1>1, <1>6, <2>1 DEF EventsInOrder
    <3> QED
      BY <1>1, <2>1, <3>1
  <2>2. CASE i = Len(chan) + 1
    <3>1. i - 1 = Len(chan) /\ Len(chan) \in 0..Len(chan)
      BY <1>1, <2>2
    <3> QED
      BY <1>1, <1>5, <3>1
  <2> QED
    BY <1>1, <2>1, <2>2
<1>7. TrackedThen(Tracked(p)', chan', Len(chan'), p)
  <2>1. \A j \in 1..Len(<<e>>) : <<e>>[j].kind # "cleared"
    BY DEF Is
  <2>2. Len(chan') \in Len(chan)..Len(chan \o <<e>>)
    BY <1>0, <1>1
  <2> QED
    BY <1>0, <1>2, <1>5, <2>1, <2>2, ThenOn
<1> QED
  BY <1>2, <1>4, <1>6, <1>7 DEF EventsInOrder

(* p is done. *)
LEMMA OrderDone ==
  ASSUME TypeOK, NEW p \in Prompts, EventsInOrder(p), srv[p] = "running", link.open,
         Emit(<<OfKind("done", p)>>), UNCHANGED <<pending, link.open>>, srv'[p] = "ended"
  PROVE  EventsInOrder(p)'
<1> DEFINE e == OfKind("done", p)
<1>0. e \in Event /\ Is(e, "done", p) /\ chan' = chan \o <<e>>
  BY EventTypes, KindOf DEF Is, Emit
<1> HIDE DEF e
<1>1. /\ Len(chan') = Len(chan) + 1 /\ Len(chan) \in Nat
      /\ \A i \in 1..Len(chan) : chan'[i] = chan[i] /\ i \in 1..Len(chan') /\ i - 1 \in 0..Len(chan)
      /\ chan'[Len(chan) + 1] = e
      /\ \A i \in 1..Len(chan') : i \in 1..Len(chan) \/ i = Len(chan) + 1
      /\ \A i \in 0..Len(chan) : TrackedThen(Tracked(p), chan, i, p) =>
                                   TrackedThen(Tracked(p)', chan', i, p)
  BY <1>0, AppendPlaces
<1>2. ~Ended(p) /\ Ended(p)'
  BY DEF Ended
<1>3. \A i \in 1..Len(chan) : ~Is(chan[i], "error", p) /\ ~Is(chan[i], "done", p)
  BY <1>2 DEF EventsInOrder
<1>4. \A i \in 1..Len(chan') : ~Is(chan'[i], "error", p)
  BY <1>0, <1>1, <1>3 DEF Is
<1>5. TrackedThen(Tracked(p), chan, Len(chan), p)
  BY DEF EventsInOrder
<1>6. ASSUME NEW i \in 1..Len(chan'), Is(chan'[i], "output", p)
      PROVE  /\ srv'[p] \notin {"none", "held"} /\ TrackedThen(Tracked(p)', chan', i - 1, p)
             /\ \E j \in 1..Len(chan') : Is(chan'[j], "done", p)
  <2>1. i \in 1..Len(chan)
    BY <1>0, <1>1, <1>6 DEF Is
  <2>2. TrackedThen(Tracked(p), chan, i - 1, p)
    BY <1>1, <1>6, <2>1 DEF EventsInOrder
  <2>3. Len(chan) + 1 \in 1..Len(chan')
    BY <1>1
  <2> QED
    BY <1>0, <1>1, <2>1, <2>2, <2>3
<1>7. ASSUME NEW i \in 1..Len(chan'), Is(chan'[i], "done", p)
      PROVE  /\ TrackedThen(Tracked(p)', chan', i - 1, p)
             /\ \A j \in (i + 1)..Len(chan') : ~Is(chan'[j], "output", p) /\ ~Is(chan'[j], "done", p)
  <2>1. i = Len(chan) + 1
    BY <1>1, <1>3, <1>7
  <2>2. i - 1 = Len(chan) /\ Len(chan) \in 0..Len(chan) /\ \A j \in (i + 1)..Len(chan') : FALSE
    BY <1>1, <2>1
  <2> QED
    BY <1>1, <1>5, <2>2
<1> QED
  BY <1>2, <1>4, <1>6, <1>7 DEF EventsInOrder

(* The queue is cleared, without p. *)
LEMMA OrderCleared ==
  ASSUME TypeOK, NEW p, EventsInOrder(p), srv[p] \notin {"held", "running"}, srv'[p] = srv[p],
         NEW e \in Event, e.kind = "cleared", Emit(<<e>>), UNCHANGED <<pending, link.open>>
  PROVE  EventsInOrder(p)'
<1>0. SameStage(p)
  BY DEF SameStage, Ended
<1>1. CASE chan' = chan
  BY <1>0, <1>1, OrderKept DEF Tracked
<1>2. CASE chan' = chan \o <<e>>
  <2>1. /\ Len(chan') = Len(chan) + 1 /\ Len(chan) \in Nat
        /\ \A i \in 1..Len(chan) : chan'[i] = chan[i] /\ i \in 1..Len(chan') /\ i - 1 \in 0..Len(chan)
        /\ chan'[Len(chan) + 1] = e
        /\ \A i \in 1..Len(chan') : i \in 1..Len(chan) \/ i = Len(chan) + 1
        /\ \A i \in 0..Len(chan) : TrackedThen(Tracked(p), chan, i, p) =>
                                     TrackedThen(Tracked(p)', chan', i, p)
    BY <1>2, AppendPlaces
  <2>2. \A i \in 1..Len(chan') : \A k \in {"output", "done", "error"} :
          Is(chan'[i], k, p) => i \in 1..Len(chan)
    BY <2>1 DEF Is
  <2>3. Ended(p)' = Ended(p)
    BY DEF Ended
  <2>4. \A i \in 1..Len(chan') : ~Is(chan'[i], "error", p)
    BY <2>1, <2>2 DEF EventsInOrder
  <2>5. ASSUME NEW i \in 1..Len(chan'), Is(chan'[i], "output", p)
        PROVE  /\ srv'[p] \notin {"none", "held"} /\ TrackedThen(Tracked(p)', chan', i - 1, p)
               /\ Ended(p)' => \E j \in 1..Len(chan') : Is(chan'[j], "done", p)
    <3>1. i \in 1..Len(chan) /\ Is(chan[i], "output", p)
      BY <2>1, <2>2, <2>5
    <3>2. /\ TrackedThen(Tracked(p), chan, i - 1, p) /\ srv[p] \notin {"none", "held"}
          /\ (Ended(p) => \E j \in 1..Len(chan) : Is(chan[j], "done", p))
      BY <3>1 DEF EventsInOrder
    <3> QED
      BY <2>1, <2>3, <3>1, <3>2
  <2>6. ASSUME NEW i \in 1..Len(chan'), Is(chan'[i], "done", p)
        PROVE  /\ Ended(p)' /\ TrackedThen(Tracked(p)', chan', i - 1, p)
               /\ \A j \in (i + 1)..Len(chan') : ~Is(chan'[j], "output", p) /\ ~Is(chan'[j], "done", p)
    <3>1. i \in 1..Len(chan) /\ Is(chan[i], "done", p)
      BY <2>1, <2>2, <2>6
    <3>2. /\ TrackedThen(Tracked(p), chan, i - 1, p) /\ Ended(p)
          /\ \A j \in (i + 1)..Len(chan) : ~Is(chan[j], "output", p) /\ ~Is(chan[j], "done", p)
      BY <3>1 DEF EventsInOrder
    <3>3. \A j \in (i + 1)..Len(chan') : j \in (i + 1)..Len(chan) \/ j = Len(chan) + 1
      BY <2>1
    <3>4. \A j \in (i + 1)..Len(chan') : ~Is(chan'[j], "output", p) /\ ~Is(chan'[j], "done", p)
      BY <2>1, <3>1, <3>2, <3>3 DEF Is
    <3> QED
      BY <2>1, <2>3, <3>1, <3>2, <3>4
  <2> QED
    BY <2>4, <2>5, <2>6 DEF EventsInOrder
<1> QED
  BY <1>1, <1>2 DEF Emit

-----------------------------------------------------------------------------
(* Every step keeps the order of the events of a prompt that is spared. *)

LEMMA SparedBefore ==
  ASSUME TypeInv, [Next]_vars, NEW p \in Prompts, Spared(p)'
  PROVE  Spared(p)
<1> USE DEF client, server, stream, bounds
<1>0. unshielded \subseteq unshielded'
  BY LeftForGood
<1>1. missed \subseteq missed'
  <2>1. CASE ServerWorks
    BY <2>1 DEF ServerWorks, Run, End, Forget, Output, EmitOf
  <2>2. CASE Handles
    BY <2>2 DEF Handles, OnQueued, OnExecuting, OnPreview, OnOutput, OnDone, OnError, OnCleared
  <2>3. CASE Clear \/ Disconnect \/ Lag \/ Reconnect \/ Connection
    BY <2>3 DEF Clear, Disconnect, Lag, Reconnect, Connection, WorkerBreaks, WorkerReturns, OnConnection
  <2>4. CASE \E q \in Prompts : \/ Accept(q) \/ Unshield(q) \/ Break(q) \/ Age(q) \/ Track(q)
                                \/ PreviewFetched(q) \/ Closes(q)
                                \/ \E o \in Outputs : OutputFetched(q, o) \/ OutputFetchFails(q, o)
    BY <2>4 DEF Accept, Unshield, Break, Age, Track, PreviewFetched, Closes,
                CloseAfterFetches, CloseAfterRecovery, Settled, Recovered,
                OutputFetched, OutputFetchFails
  <2>5. CASE \E r \in Ticks : Reconciles(r)
    BY <2>5 DEF Reconciles, TickStarts, GetQueue, QueueKnown, QueueLate, TickSkips, TickCompletes,
                TickWaits, TickAfterFetches, TickAfterRecovery, Settled, Recovered
  <2>6. CASE UNCHANGED vars
    BY <2>6 DEF vars
  <2> QED
    BY <2>1, <2>2, <2>3, <2>4, <2>5, <2>6 DEF Next
<1> QED
  BY <1>0, <1>1 DEF Spared

LEMMA ConcatPlaces ==
  ASSUME NEW V, NEW s \in Seq(V), NEW t \in Seq(V), NEW u, u = s \o t
  PROVE  /\ u \in Seq(V)
         /\ \A i \in 1..Len(s) : i \in 1..Len(u) /\ u[i] = s[i]
         /\ \A i \in 1..Len(u) :
              \/ i \in 1..Len(s) /\ u[i] = s[i]
              \/ i - Len(s) \in 1..Len(t) /\ u[i] = t[i - Len(s)]
<1>1. /\ u \in Seq(V) /\ Len(u) = Len(s) + Len(t) /\ Len(s) \in Nat /\ Len(t) \in Nat
      /\ \A i \in 1..(Len(s) + Len(t)) : u[i] = IF i <= Len(s) THEN s[i] ELSE t[i - Len(s)]
  BY ConcatProperties
<1>2. ASSUME NEW i \in 1..Len(u)
      PROVE  \/ i \in 1..Len(s) /\ u[i] = s[i]
             \/ i - Len(s) \in 1..Len(t) /\ u[i] = t[i - Len(s)]
  BY <1>1, <1>2
<1>3. ASSUME NEW i \in 1..Len(s) PROVE i \in 1..Len(u) /\ u[i] = s[i]
  BY <1>1, <1>3
<1> QED
  BY <1>1, <1>2, <1>3

(* What the stream starts with. *)
LEMMA ReconnectEvents ==
  ASSUME TypeInv, Reconnect
  PROVE  /\ chan' \in Seq(Event)
         /\ \A i \in 1..Len(chan') : chan'[i].kind \in {"queued", "preview"} /\ chan'[i].prompt \in InQueue
         /\ \A p \in InQueue : \E i \in 1..Len(chan') : Is(chan'[i], "queued", p)
<1> DEFINE held == ForEach("queued", InQueue)
           frames == ForEach("preview", {q \in InQueue : srv[q] # "held"})
<1>1. InQueue \in SUBSET Prompts /\ {q \in InQueue : srv[q] # "held"} \in SUBSET Prompts
  BY DEF InQueue
<1>2. /\ held \in Seq(Event)
      /\ \A i \in 1..Len(held) : \E q \in InQueue : held[i] = OfKind("queued", q)
      /\ \A q \in InQueue : \E i \in 1..Len(held) : held[i] = OfKind("queued", q)
  BY <1>1, ForEachType
<1>3. /\ frames \in Seq(Event)
      /\ \A i \in 1..Len(frames) : \E q \in InQueue : frames[i] = OfKind("preview", q)
  <2> HIDE DEF held
  <2> DEFINE ps == {q \in InQueue : srv[q] # "held"}
  <2>1. ps \in SUBSET Prompts /\ ps \subseteq InQueue /\ frames = ForEach("preview", ps)
    BY <1>1
  <2> HIDE DEF ps, frames
  <2>2. ForEach("preview", ps) \in Seq(Event)
        /\ \A i \in 1..Len(ForEach("preview", ps)) : \E q \in ps : ForEach("preview", ps)[i] = OfKind("preview", q)
    BY <2>1, ForEachType
  <2> QED
    BY <2>1, <2>2
<1>4. chan' = held \o frames
  BY DEF Reconnect
<1> HIDE DEF held, frames
<1>5. /\ chan' \in Seq(Event)
      /\ \A i \in 1..Len(held) : i \in 1..Len(chan') /\ chan'[i] = held[i]
      /\ \A i \in 1..Len(chan') : \/ i \in 1..Len(held) /\ chan'[i] = held[i]
                                  \/ i - Len(held) \in 1..Len(frames) /\ chan'[i] = frames[i - Len(held)]
  <2>1. held \in Seq(Event) /\ frames \in Seq(Event)
    BY <1>2, <1>3
  <2> QED
    BY <1>4, <2>1, ConcatPlaces
<1>6. \A i \in 1..Len(held) : held[i].kind = "queued" /\ held[i].prompt \in InQueue
  BY <1>2, KindOf
<1>7. \A i \in 1..Len(frames) : frames[i].kind = "preview" /\ frames[i].prompt \in InQueue
  BY <1>3, KindOf
<1>8. ASSUME NEW p \in InQueue PROVE \E i \in 1..Len(chan') : Is(chan'[i], "queued", p)
  <2>1. PICK i \in 1..Len(held) : held[i] = OfKind("queued", p)
    BY <1>2
  <2>2. i \in 1..Len(chan') /\ chan'[i] = OfKind("queued", p)
    BY <1>5, <2>1
  <2> QED
    BY <2>2, KindOf DEF Is
<1> QED
  BY <1>5, <1>6, <1>7, <1>8

LEMMA OrderReconnected ==
  ASSUME TypeInv, Reconnect, NEW p \in Prompts
  PROVE  EventsInOrder(p)'
<1>1. /\ chan' \in Seq(Event)
      /\ \A i \in 1..Len(chan') : chan'[i].kind \in {"queued", "preview"}
      /\ \A q \in InQueue : \E i \in 1..Len(chan') : Is(chan'[i], "queued", q)
      /\ srv' = srv
  BY ReconnectEvents DEF Reconnect, server
<1>2. \A i \in 1..Len(chan') : \A k \in {"output", "done", "error"} : ~Is(chan'[i], k, p)
  BY <1>1 DEF Is
<1>3. CASE srv[p] \in {"held", "running"}
  <2>1. PICK k \in 1..Len(chan') : Is(chan'[k], "queued", p)
    BY <1>1, <1>3 DEF InQueue
  <2>2. \A j \in 1..Len(chan') : chan'[j].kind # "cleared"
    BY <1>1
  <2>3. TrackedThen(Tracked(p)', chan', Len(chan'), p)
    BY <1>1, <2>1, <2>2, ThenQueued
  <2> QED
    BY <1>2, <2>3 DEF EventsInOrder
<1>4. CASE srv[p] \notin {"held", "running"}
  BY <1>1, <1>2, <1>4, OrderQuiet
<1> QED
  BY <1>3, <1>4

(* Once the last event is handled, none that matter follow. *)
LEMMA FinishedIsQuiet ==
  ASSUME NEW p, EventsInOrder(p), Finished(p)
  PROVE  /\ \A i \in 1..Len(chan) : \A k \in {"output", "done", "error"} : ~Is(chan[i], k, p)
         /\ srv[p] \notin {"held", "running"}
BY DEF EventsInOrder, Finished, Ended

LEMMA OverIsFinished ==
  ASSUME NEW p, Over(p)
  PROVE  Finished(p)
BY DEF Over, Finished, Ended, About, Is

(* One of the handlers takes q. *)
LEMMA OrderCompleted ==
  ASSUME TypeInv, NEW p \in Prompts, EventsInOrder(p), NEW q, pending' = Others(q),
         UNCHANGED <<chan, link.open, srv>>, q = p => Finished(p)
  PROVE  EventsInOrder(p)'
<1>1. CASE q = p
  BY <1>1, FinishedIsQuiet, OrderQuiet
<1>2. CASE q # p
  <2>1. Range(pending') = Range(pending) \ {q}
    BY OthersType DEF TypeInv
  <2> QED
    BY <1>2, <2>1, OrderKept DEF Tracked, SameStage, Ended
<1> QED
  BY <1>1, <1>2

(* A callback takes a prompt that is spared only when it is over. *)
LEMMA OverdueIsOver ==
  ASSUME TypeInv, NEW r \in Ticks, NEW p \in Prompts, p = Head(tick[r].todo),
         Waits(tick[r], p), activity[p] # "reset",
         \/ tick[r].pc = "loop" /\ Overdue(tick[r], p)
         \/ tick[r].pc \in {"await", "recover"}
  PROVE  Over(p)
BY DEF Waits, Overdue, Quiet

LEMMA OrderHandled ==
  ASSUME TypeInv, Handles, NEW p \in Prompts, EventsInOrder(p)
  PROVE  EventsInOrder(p)'
<1>0. /\ chan # <<>> /\ Taken /\ Head(chan) = chan[1] /\ 1 \in 1..Len(chan) /\ chan[1] \in Event
      /\ srv' = srv /\ link.open' = link.open
  <2>1. chan # <<>> /\ Taken
    BY DEF Handles, OnQueued, OnExecuting, OnPreview, OnOutput, OnDone, OnError, OnCleared, NextIs
  <2> QED
    BY <2>1, TakenFacts, TypeFacts, FirstTaken DEF TypeInv
<1>1. CASE Is(chan[1], "done", p)
  <2>1. Ended(p) /\ \A j \in (1 + 1)..Len(chan) : ~Is(chan[j], "output", p) /\ ~Is(chan[j], "done", p)
    BY <1>0, <1>1 DEF EventsInOrder
  <2>2. \A i \in 1..Len(chan') : i + 1 \in 1..Len(chan) /\ i + 1 \in (1 + 1)..Len(chan) /\ chan'[i] = chan[i + 1]
    BY <1>0, TakenElems DEF TypeInv
  <2>3. \A i \in 1..Len(chan') : \A k \in {"output", "done", "error"} : ~Is(chan'[i], k, p)
    BY <2>1, <2>2 DEF EventsInOrder
  <2> QED
    BY <1>0, <2>1, <2>3, OrderQuiet DEF Ended
<1>2. ASSUME ~Is(chan[1], "done", p),
             (Tracked(p) /\ chan[1].kind # "cleared") \/ Is(chan[1], "queued", p) => Tracked(p)'
      PROVE  EventsInOrder(p)'
  BY <1>0, <1>2, OrderTaken DEF TypeInv
<1>3. ASSUME NEW q \in Prompts, q # p, pending' = Others(q), ~Is(chan[1], "queued", p), ~Is(chan[1], "done", p)
      PROVE  EventsInOrder(p)'
  <2>1. Tracked(p)' = Tracked(p)
    BY <1>3, OthersType DEF Tracked, TypeInv
  <2> QED
    BY <1>2, <1>3, <2>1
<1>4. ASSUME UNCHANGED pending, ~Is(chan[1], "queued", p), ~Is(chan[1], "done", p)
      PROVE  EventsInOrder(p)'
  BY <1>2, <1>4 DEF Tracked
<1>5. CASE OnQueued
  <2>1. chan[1].kind = "queued" /\ chan[1].prompt \in Prompts /\ Enqueue(chan[1].prompt)
    BY <1>0, <1>5, EventTypes DEF OnQueued, NextIs
  <2>2. Range(pending') = Range(pending) \cup {chan[1].prompt}
    BY <2>1, EnqueueType DEF TypeInv
  <2> QED
    BY <1>2, <2>1, <2>2 DEF Tracked, Is
<1>6. CASE OnExecuting \/ OnPreview \/ OnOutput
  BY <1>0, <1>4, <1>6 DEF OnExecuting, OnPreview, OnOutput, NextIs, Is
<1>7. ASSUME OnDone, ~Is(chan[1], "done", p) PROVE EventsInOrder(p)'
  <2>1. chan[1].kind = "done" /\ chan[1].prompt \in Prompts /\ chan[1].prompt # p
    BY <1>0, <1>7, EventTypes DEF OnDone, NextIs, Is
  <2> QED
    BY <1>0, <1>3, <1>4, <1>7, <2>1 DEF OnDone, CloseNow, Complete, CompletePrompt, Is
<1>8. CASE OnError
  <2>1. chan[1].kind = "error" /\ chan[1].prompt \in Prompts /\ pending' = Others(chan[1].prompt)
    BY <1>0, <1>8, EventTypes DEF OnError, NextIs, RemovePrompt
  <2>2. chan[1].prompt # p
    BY <1>0, <2>1 DEF EventsInOrder, Is
  <2> QED
    BY <1>3, <2>1, <2>2 DEF Is
<1>9. CASE OnCleared
  <2>1. chan[1].kind = "cleared"
    BY <1>0, <1>9 DEF OnCleared, NextIs
  <2> QED
    BY <1>2, <2>1 DEF Is
<1> QED
  BY <1>1, <1>5, <1>6, <1>7, <1>8, <1>9 DEF Handles

LEMMA OrderServed ==
  ASSUME TypeInv, NEW q \in Prompts,
         Accept(q) \/ Run(q) \/ End(q) \/ Break(q) \/ Forget(q) \/ \E o \in Outputs : Output(q, o),
         NEW p \in Prompts, EventsInOrder(p), Spared(p)'
  PROVE  EventsInOrder(p)'
<1> USE DEF client, server, stream, bounds
<1>0. TypeOK /\ srv \in [Prompts -> {"none", "held", "running", "ended", "gone"}]
  BY DEF TypeInv, TypeOK
<1>1. ASSUME NEW e \in Event, e.kind # "cleared",
             \A k \in {"output", "done", "error"} : ~Is(e, k, p),
             Emit(<<e>>), UNCHANGED <<pending, link.open>>, SameStage(p)
      PROVE  EventsInOrder(p)'
  <2>1. /\ <<e>> \in Seq(Event)
        /\ \A j \in 1..Len(<<e>>) : /\ <<e>>[j].kind # "cleared"
                                    /\ \A k \in {"output", "done", "error"} : ~Is(<<e>>[j], k, p)
    BY <1>1
  <2> QED
    BY <1>0, <1>1, <2>1, OrderEmitted
<1>2. CASE Accept(q)
  <2>1. /\ srv[q] = "none" /\ Emit(<<OfKind("queued", q)>>) /\ UNCHANGED <<pending, link.open>>
        /\ srv' = [srv EXCEPT ![q] = "held"]
    BY <1>2 DEF Accept
  <2>2. CASE q = p
    <3>1. srv'[p] = "held"
      BY <1>0, <2>1, <2>2
    <3> QED
      BY <1>0, <2>1, <2>2, <3>1, OrderAccepted
  <2>3. CASE q # p
    <3>1. srv'[p] = srv[p]
      BY <1>0, <2>1, <2>3
    <3>2. SameStage(p)
      BY <3>1 DEF SameStage, Ended
    <3> QED
      BY <1>1, <2>1, <3>2, EventTypes, KindOf DEF Is
  <2> QED
    BY <2>2, <2>3
<1>3. CASE Run(q)
  <2> DEFINE e == OfKind("executing", q)
             f == OfKind("preview", q)
  <2>1. /\ srv[q] = "held" /\ Emit(<<e, f>>) /\ UNCHANGED <<pending, link.open>>
        /\ srv' = [srv EXCEPT ![q] = "running"]
    BY <1>3 DEF Run, EmitOf
  <2>2. e \in Event /\ f \in Event /\ e.kind = "executing" /\ f.kind = "preview"
    BY EventTypes, KindOf
  <2>3. SameStage(p)
    <3>1. srv'[p] = IF p = q THEN "running" ELSE srv[p]
      BY <1>0, <2>1
    <3>2. CASE p = q
      <4>1. srv[p] = "held" /\ srv'[p] = "running"
        BY <2>1, <3>1, <3>2
      <4> QED
        BY <4>1 DEF SameStage, Ended
    <3> QED
      BY <3>1, <3>2 DEF SameStage, Ended
  <2> HIDE DEF e, f
  <2>4. <<e, f>> \in Seq(Event) /\ \A j \in 1..Len(<<e, f>>) : <<e, f>>[j] \in {e, f}
    BY <2>2
  <2>5. \A j \in 1..Len(<<e, f>>) : /\ <<e, f>>[j].kind # "cleared"
                                    /\ \A k \in {"output", "done", "error"} : ~Is(<<e, f>>[j], k, p)
    BY <2>2, <2>4 DEF Is
  <2> QED
    BY <1>0, <2>1, <2>3, <2>4, <2>5, OrderEmitted
<1>4. CASE End(q)
  <2>1. /\ srv[q] = "running" /\ Emit(<<OfKind("done", q)>>) /\ UNCHANGED <<pending, link.open>>
        /\ srv' = [srv EXCEPT ![q] = "ended"] /\ missed' = (IF link.open THEN missed ELSE missed \cup {q})
    BY <1>4 DEF End, EmitOf
  <2>2. CASE q = p
    <3>1. srv'[p] = "ended" /\ link.open
      BY <1>0, <2>1, <2>2 DEF Spared, TypeOK
    <3> QED
      BY <1>0, <2>1, <2>2, <3>1, OrderDone
  <2>3. CASE q # p
    <3>1. srv'[p] = srv[p]
      BY <1>0, <2>1, <2>3
    <3>2. SameStage(p)
      BY <3>1 DEF SameStage, Ended
    <3> QED
      BY <1>1, <2>1, <2>3, <3>2, EventTypes, KindOf DEF Is
  <2> QED
    BY <2>2, <2>3
<1>5. CASE Break(q)
  <2>1. /\ Emit(<<OfKind("error", q)>>) /\ UNCHANGED <<pending, link.open>>
        /\ srv' = [srv EXCEPT ![q] = "ended"] /\ missed' = missed \cup {q}
    BY <1>5 DEF Break
  <2>2. q # p
    BY <2>1 DEF Spared
  <2>3. srv'[p] = srv[p]
    BY <1>0, <2>1, <2>2
  <2>4. SameStage(p)
    BY <2>3 DEF SameStage, Ended
  <2> QED
    BY <1>1, <2>1, <2>2, <2>4, EventTypes, KindOf DEF Is
<1>6. CASE Forget(q)
  <2> DEFINE es == ForEach("queued", InQueue \ {q})
  <2>1. InQueue \ {q} \in SUBSET Prompts
    BY DEF InQueue
  <2>2. /\ es \in Seq(Event)
        /\ \A i \in 1..Len(es) : \E x \in InQueue \ {q} : es[i] = OfKind("queued", x)
    BY <2>1, ForEachType
  <2>3. /\ srv[q] = "ended" /\ Emit(es) /\ UNCHANGED <<pending, link.open>>
        /\ srv' = [srv EXCEPT ![q] = "gone"]
    BY <1>6 DEF Forget
  <2>4. SameStage(p)
    <3>1. srv'[p] = IF p = q THEN "gone" ELSE srv[p]
      BY <1>0, <2>3
    <3>2. CASE p = q
      <4>1. srv[p] = "ended" /\ srv'[p] = "gone"
        BY <2>3, <3>1, <3>2
      <4> QED
        BY <4>1 DEF SameStage, Ended
    <3> QED
      BY <3>1, <3>2 DEF SameStage, Ended
  <2> HIDE DEF es
  <2>5. \A j \in 1..Len(es) : es[j].kind = "queued"
    BY <2>2, KindOf
  <2>6. \A j \in 1..Len(es) : /\ es[j].kind # "cleared"
                              /\ \A k \in {"output", "done", "error"} : ~Is(es[j], k, p)
    BY <2>5 DEF Is
  <2> QED
    BY <1>0, <2>2, <2>3, <2>4, <2>6, OrderEmitted
<1>7. ASSUME NEW o \in Outputs, Output(q, o) PROVE EventsInOrder(p)'
  <2> DEFINE e == [kind |-> "output", prompt |-> q, output |-> o]
  <2>1. e \in Event /\ e.kind = "output" /\ e.prompt = q
    BY EventTypes
  <2>2. /\ srv[q] = "running" /\ Emit(<<e>>) /\ UNCHANGED <<pending, link.open, srv>>
        /\ missed' = (IF link.open THEN missed ELSE missed \cup {q})
    BY <1>7 DEF Output, EmitOf
  <2> HIDE DEF e
  <2>3. CASE q = p
    <3>1. link.open
      BY <1>0, <2>2, <2>3 DEF Spared, TypeOK
    <3> QED
      BY <1>0, <2>1, <2>2, <2>3, <3>1, OrderOutput DEF Is
  <2>4. CASE q # p
    <3>1. SameStage(p)
      BY <2>2 DEF SameStage, Ended
    <3> QED
      BY <1>1, <2>1, <2>2, <2>4, <3>1 DEF Is
  <2> QED
    BY <2>3, <2>4
<1> QED
  BY <1>2, <1>3, <1>4, <1>5, <1>6, <1>7

(* A gap has nothing of a prompt that is spared. *)
LEMMA OrderGap ==
  ASSUME TypeInv, Lag, NEW p \in Prompts, EventsInOrder(p), Spared(p)'
  PROVE  EventsInOrder(p)'
<1>1. /\ chan' = <<>> /\ srv' = srv /\ pending' = pending /\ link'.open = link.open
      /\ missed' = missed \cup {q \in Prompts : \E e \in Range(chan) : About(e, q)}
  BY DEF Lag, server, client, Links, TypeInv, TypeOK
<1>2. \A i \in 1..Len(chan) : ~About(chan[i], p)
  <2>1. \A e \in Range(chan) : ~About(e, p)
    BY <1>1 DEF Spared
  <2>2. \A i \in 1..Len(chan) : chan[i] \in Range(chan)
    BY TypeFacts, RangeIsElems DEF TypeInv, Elems
  <2> QED
    BY <2>1, <2>2
<1>3. TrackedThen(Tracked(p), chan, Len(chan), p) => Tracked(p)
  BY <1>2 DEF TrackedThen, Is, About
<1>4. Len(chan') = 0
  BY <1>1, EmptySeq
<1>5. Tracked(p) => TrackedThen(Tracked(p)', chan', Len(chan'), p)
  BY <1>1, <1>4 DEF TrackedThen, Tracked
<1>6. link.open' /\ srv'[p] \in {"held", "running"} => TrackedThen(Tracked(p)', chan', Len(chan'), p)
  BY <1>1, <1>3, <1>5 DEF EventsInOrder
<1> QED
  BY <1>4, <1>6 DEF EventsInOrder

LEMMA NextOrder ==
  ASSUME TypeInv, SparedInv, [Next]_vars, NEW p \in Prompts, Spared(p)'
  PROVE  EventsInOrder(p)'
<1> USE DEF client, server, stream, collected, outcome, bounds
<1>0. Spared(p) /\ EventsInOrder(p) /\ ImagesKept(p) /\ \A r \in Ticks : Waits(tick[r], p)
  BY SparedBefore DEF SparedInv
<1>1. ASSUME UNCHANGED <<srv, link.open, chan>>, Tracked(p) => Tracked(p)' PROVE EventsInOrder(p)'
  BY <1>0, <1>1, OrderKept DEF SameStage, Ended
<1>2. ASSUME UNCHANGED <<srv, link.open, chan, pending>> PROVE EventsInOrder(p)'
  BY <1>1, <1>2 DEF Tracked
<1>3. CASE Clear
  <2> DEFINE e == [kind |-> "cleared"]
  <2>1. /\ Emit(<<e>>) /\ UNCHANGED <<pending, link.open>>
        /\ srv' = [x \in Prompts |-> IF srv[x] \in {"held", "running"} THEN "gone" ELSE srv[x]]
        /\ missed' = missed \cup {x \in Prompts : srv[x] \in {"held", "running"}}
    BY <1>3 DEF Clear
  <2>2. srv[p] \notin {"held", "running"} /\ srv'[p] = srv[p] /\ TypeOK
    BY <2>1 DEF Spared, TypeInv
  <2>3. e \in Event /\ e.kind = "cleared"
    BY EventTypes
  <2> HIDE DEF e
  <2> QED
    BY <1>0, <2>1, <2>2, <2>3, OrderCleared
<1>4. CASE Disconnect
  <2>1. ~link'.open /\ chan' = <<>>
    BY <1>4 DEF Disconnect, Links, TypeInv, TypeOK
  <2> QED
    BY <2>1, OrderQuiet
<1>4a. CASE Lag
  BY <1>0, <1>4a, OrderGap
<1>4b. CASE Connection
  <2>1. UNCHANGED <<srv, chan, pending>> /\ link'.open = link.open
    BY <1>4b, NewsOnly DEF TypeInv
  <2> QED
    BY <1>2, <2>1
<1>5. CASE Reconnect
  BY <1>5, OrderReconnected
<1>6. CASE ServerWorks
  BY <1>0, <1>6, OrderServed DEF ServerWorks
<1>7. ASSUME NEW q \in Prompts, Accept(q) \/ Break(q) PROVE EventsInOrder(p)'
  BY <1>0, <1>7, OrderServed
<1>8. CASE Handles
  BY <1>0, <1>8, OrderHandled
<1>9. ASSUME NEW q \in Prompts,
             \/ Unshield(q) \/ Age(q) \/ PreviewFetched(q) \/ CloseAfterRecovery(q)
             \/ \E o \in Outputs : OutputFetched(q, o) \/ OutputFetchFails(q, o)
      PROVE  EventsInOrder(p)'
  BY <1>2, <1>9 DEF Unshield, Age, PreviewFetched, CloseAfterRecovery, OutputFetched, OutputFetchFails
<1>10. ASSUME NEW q \in Prompts, Track(q) PROVE EventsInOrder(p)'
  <2>1. Range(pending') = Range(pending) \cup {q} /\ UNCHANGED <<srv, link.open, chan>>
    BY <1>10, EnqueueType DEF Track, TypeInv
  <2> QED
    BY <1>1, <2>1 DEF Tracked
<1>11. ASSUME NEW q \in Prompts, CloseAfterFetches(q) PROVE EventsInOrder(p)'
  <2>1. pending' = Others(q) /\ UNCHANGED <<srv, link.open, chan>> /\ closing[q].pc = "await"
    BY <1>11 DEF CloseAfterFetches, CloseNow, Complete, CompletePrompt
  <2>2. q = p => Finished(p)
    BY <1>0, <2>1 DEF ImagesKept
  <2> QED
    BY <1>0, <2>1, <2>2, OrderCompleted
<1>12. ASSUME NEW r \in Ticks, Reconciles(r) PROVE EventsInOrder(p)'
  <2>1. CASE \/ TickStarts(r) \/ GetQueue(r) \/ QueueKnown(r) \/ QueueLate(r) \/ TickSkips(r)
             \/ TickWaits(r) \/ TickAfterRecovery(r)
    BY <1>2, <2>1 DEF TickStarts, GetQueue, QueueKnown, QueueLate, TickSkips, TickWaits,
                      TickAfterRecovery
  <2>2. ASSUME NEW q, q = Head(tick[r].todo), pending' = Others(q), UNCHANGED <<srv, link.open, chan>>,
               \/ tick[r].pc = "loop" /\ Overdue(tick[r], q)
               \/ tick[r].pc = "await"
        PROVE  EventsInOrder(p)'
    <3>1. q = p => Over(p)
      BY <1>0, <2>2, OverdueIsOver DEF ImagesKept
    <3> QED
      BY <1>0, <2>2, <3>1, OverIsFinished, OrderCompleted
  <2>3. CASE TickCompletes(r)
    BY <2>2, <2>3 DEF TickCompletes, GiveUpNow, Complete, CompletePrompt
  <2>4. CASE TickAfterFetches(r)
    BY <2>2, <2>4 DEF TickAfterFetches, GiveUpNow, Complete, CompletePrompt
  <2> QED
    BY <1>12, <2>1, <2>3, <2>4 DEF Reconciles
<1>13. CASE UNCHANGED vars
  BY <1>2, <1>13 DEF vars
<1> QED
  BY <1>3, <1>4, <1>4a, <1>4b, <1>5, <1>6, <1>7, <1>8, <1>9, <1>10, <1>11, <1>12, <1>13 DEF Next, Closes

-----------------------------------------------------------------------------
(* When the browser hears no more of a prompt. *)

LEMMA OfflineIsEmpty ==
  ASSUME TypeInv, ~link.open => chan = <<>>, [Next]_vars
  PROVE  ~link.open' => chan' = <<>>
<1> USE DEF client, server, stream, bounds
<1>0. ASSUME NEW events, Emit(events), UNCHANGED link.open PROVE ~link.open' => chan' = <<>>
  BY <1>0 DEF Emit
<1>1. ASSUME NEW q \in Prompts, \/ Accept(q) \/ Run(q) \/ End(q) \/ Break(q) \/ Forget(q)
                               \/ \E o \in Outputs : Output(q, o)
      PROVE  ~link.open' => chan' = <<>>
  BY <1>0, <1>1 DEF Accept, Run, End, Break, Forget, Output, EmitOf
<1>2. CASE Handles
  <2>1. chan # <<>> /\ link.open' = link.open
    BY <1>2 DEF Handles, OnQueued, OnExecuting, OnPreview, OnOutput, OnDone, OnError, OnCleared,
                NextIs, Taken
  <2> QED
    BY <2>1
<1>3. CASE Clear \/ Disconnect \/ Lag \/ Reconnect
  BY <1>0, <1>3 DEF Clear, Disconnect, Lag, Reconnect, Links, TypeInv, TypeOK
<1>3a. CASE Connection
  <2>1. UNCHANGED chan /\ link'.open = link.open
    BY <1>3a, NewsOnly DEF TypeInv
  <2> QED
    BY <2>1
<1>4. CASE \E q \in Prompts : \/ Unshield(q) \/ Age(q) \/ Track(q)
                              \/ PreviewFetched(q) \/ Closes(q)
                              \/ \E o \in Outputs : OutputFetched(q, o) \/ OutputFetchFails(q, o)
  BY <1>4 DEF Unshield, Age, Track, PreviewFetched, Closes,
              CloseAfterFetches, CloseAfterRecovery, OutputFetched, OutputFetchFails
<1>5. CASE \E r \in Ticks : Reconciles(r)
  BY <1>5 DEF Reconciles, TickStarts, GetQueue, QueueKnown, QueueLate, TickSkips, TickCompletes,
              TickWaits, TickAfterFetches, TickAfterRecovery
<1>6. CASE UNCHANGED vars
  BY <1>6 DEF vars
<1> QED
  BY <1>1, <1>2, <1>3, <1>3a, <1>4, <1>5, <1>6 DEF Next, ServerWorks

LEMMA OverKept ==
  ASSUME TypeInv, [Next]_vars, NEW p \in Prompts, Over(p)
  PROVE  Over(p)'
<1> USE DEF client, server, stream, bounds
<1>0. /\ srv[p] = "gone" /\ srv'[p] = "gone" /\ TypeOK
      /\ \A i \in 1..Len(chan) : ~About(chan[i], p)
  BY LeftForGood DEF Over, TypeInv
<1>1. ASSUME \A i \in 1..Len(chan') : ~About(chan'[i], p) PROVE Over(p)'
  BY <1>0, <1>1 DEF Over
<1>2. ASSUME UNCHANGED chan PROVE Over(p)'
  BY <1>0, <1>1, <1>2
<1>3. ASSUME NEW events \in Seq(Event), Emit(events), \A j \in 1..Len(events) : ~About(events[j], p)
      PROVE  Over(p)'
  <2>1. \A i \in 1..Len(chan') : \/ i \in 1..Len(chan) /\ chan'[i] = chan[i]
                                 \/ \E j \in 1..Len(events) : chan'[i] = events[j]
    BY <1>0, <1>3, EmitElems
  <2> QED
    BY <1>0, <1>1, <1>3, <2>1
<1>4. ASSUME NEW e \in Event, ~About(e, p), Emit(<<e>>) PROVE Over(p)'
  <2>1. <<e>> \in Seq(Event) /\ \A j \in 1..Len(<<e>>) : ~About(<<e>>[j], p)
    BY <1>4
  <2> QED
    BY <1>3, <1>4, <2>1
<1>5. ASSUME NEW q \in Prompts, Accept(q) PROVE Over(p)'
  BY <1>0, <1>4, <1>5, EventTypes, KindOf DEF Accept, About
<1>6. ASSUME NEW q \in Prompts, Run(q) PROVE Over(p)'
  <2> DEFINE e == OfKind("executing", q)
             f == OfKind("preview", q)
  <2>1. q # p /\ Emit(<<e, f>>) /\ e \in Event /\ f \in Event /\ e.prompt = q /\ f.prompt = q
    BY <1>0, <1>6, EventTypes, KindOf DEF Run, EmitOf
  <2> HIDE DEF e, f
  <2>2. <<e, f>> \in Seq(Event) /\ \A j \in 1..Len(<<e, f>>) : <<e, f>>[j] \in {e, f}
    BY <2>1
  <2>3. \A j \in 1..Len(<<e, f>>) : ~About(<<e, f>>[j], p)
    BY <2>1, <2>2 DEF About
  <2> QED
    BY <1>3, <2>1, <2>2, <2>3
<1>7. ASSUME NEW q \in Prompts, End(q) \/ Break(q) PROVE Over(p)'
  BY <1>0, <1>4, <1>7, EventTypes, KindOf DEF End, Break, EmitOf, About
<1>8. ASSUME NEW q \in Prompts, Forget(q) PROVE Over(p)'
  <2> DEFINE es == ForEach("queued", InQueue \ {q})
  <2>1. InQueue \ {q} \in SUBSET Prompts /\ p \notin InQueue
    BY <1>0 DEF InQueue
  <2>2. /\ es \in Seq(Event)
        /\ \A i \in 1..Len(es) : \E x \in InQueue \ {q} : es[i] = OfKind("queued", x)
    BY <2>1, ForEachType
  <2>3. Emit(es)
    BY <1>8 DEF Forget
  <2> HIDE DEF es
  <2>4. \A j \in 1..Len(es) : ~About(es[j], p)
    BY <2>1, <2>2, KindOf DEF About
  <2> QED
    BY <1>3, <2>2, <2>3, <2>4
<1>9. ASSUME NEW q \in Prompts, NEW o \in Outputs, Output(q, o) PROVE Over(p)'
  <2>1. q # p
    BY <1>0, <1>9 DEF Output
  <2> QED
    BY <1>4, <1>9, <2>1, EventTypes DEF Output, EmitOf, About
<1>10. CASE Clear
  BY <1>4, <1>10, EventTypes DEF Clear, About
<1>11. CASE Disconnect \/ Lag
  BY <1>1, <1>11 DEF Disconnect, Lag
<1>11a. CASE Connection
  BY <1>2, <1>11a DEF Connection, WorkerBreaks, WorkerReturns, OnConnection
<1>12. CASE Reconnect
  <2>1. \A i \in 1..Len(chan') : chan'[i].prompt \in InQueue
    BY <1>12, ReconnectEvents
  <2>2. p \notin InQueue
    BY <1>0 DEF InQueue
  <2> QED
    BY <1>1, <2>1, <2>2 DEF About
<1>13. CASE Handles
  <2>1. chan # <<>> /\ Taken
    BY <1>13 DEF Handles, OnQueued, OnExecuting, OnPreview, OnOutput, OnDone, OnError, OnCleared, NextIs
  <2>2. \A i \in 1..Len(chan') : i + 1 \in 1..Len(chan) /\ chan'[i] = chan[i + 1]
    BY <1>0, <2>1, TakenElems
  <2> QED
    BY <1>0, <1>1, <2>2
<1>14. CASE \E q \in Prompts : \/ Unshield(q) \/ Age(q) \/ Track(q) \/ PreviewFetched(q) \/ Closes(q)
                               \/ \E o \in Outputs : OutputFetched(q, o) \/ OutputFetchFails(q, o)
  BY <1>2, <1>14 DEF Unshield, Age, Track, PreviewFetched, Closes, CloseAfterFetches,
                     CloseAfterRecovery, OutputFetched, OutputFetchFails
<1>15. CASE \E r \in Ticks : Reconciles(r)
  BY <1>2, <1>15 DEF Reconciles, TickStarts, GetQueue, QueueKnown, QueueLate, TickSkips,
                     TickCompletes, TickWaits, TickAfterFetches, TickAfterRecovery
<1>16. CASE UNCHANGED vars
  BY <1>2, <1>16 DEF vars
<1>17. CASE ServerWorks
  BY <1>6, <1>7, <1>8, <1>9, <1>17 DEF ServerWorks
<1> QED
  BY <1>5, <1>7, <1>10, <1>11, <1>11a, <1>12, <1>13, <1>14, <1>15, <1>16, <1>17 DEF Next

(* No more of its images are fetched, either. *)
LEMMA OverFetches ==
  ASSUME TypeInv, [Next]_vars, NEW p \in Prompts, Over(p)
  PROVE  fetching'[p] \subseteq fetching[p]
<1> USE DEF client, collected
<1>1. CASE UNCHANGED fetching
  BY <1>1
<1>2. CASE ServerWorks
  BY <1>1, <1>2 DEF ServerWorks, Run, End, Forget, Output
<1>3. CASE OnOutput
  <2>1. chan # <<>> /\ Head(chan) = chan[1] /\ 1 \in 1..Len(chan) /\ chan[1].kind = "output"
    BY <1>3, TypeFacts, FirstTaken DEF OnOutput, NextIs, TypeInv
  <2>2. Head(chan).prompt # p
    BY <2>1 DEF Over, About
  <2> QED
    BY <1>3, <2>2 DEF OnOutput, TypeInv, TypeOK
<1>4. CASE OnQueued \/ OnExecuting \/ OnPreview \/ OnDone \/ OnError \/ OnCleared
  BY <1>1, <1>4 DEF OnQueued, OnExecuting, OnPreview, OnDone, OnError, OnCleared
<1>5. CASE Clear \/ Disconnect \/ Lag \/ Reconnect \/ Connection
  BY <1>1, <1>5 DEF Clear, Disconnect, Lag, Reconnect, Connection, WorkerBreaks, WorkerReturns,
                    OnConnection
<1>6. CASE \E q \in Prompts : \/ Accept(q) \/ Unshield(q) \/ Break(q) \/ Age(q) \/ Track(q)
                              \/ PreviewFetched(q) \/ Closes(q)
  BY <1>1, <1>6 DEF Accept, Unshield, Break, Age, Track, PreviewFetched, Closes,
                    CloseAfterFetches, CloseAfterRecovery
<1>7. CASE \E q \in Prompts : \E o \in Outputs : OutputFetched(q, o) \/ OutputFetchFails(q, o)
  <2>1. fetching \in [Prompts -> SUBSET Outputs]
    BY DEF TypeInv, TypeOK
  <2> QED
    BY <1>7, <2>1 DEF OutputFetched, OutputFetchFails
<1>8. CASE \E r \in Ticks : Reconciles(r)
  BY <1>1, <1>8 DEF Reconciles, TickStarts, GetQueue, QueueKnown, QueueLate, TickSkips,
                    TickCompletes, TickWaits, TickAfterFetches, TickAfterRecovery
<1>9. CASE UNCHANGED vars
  BY <1>1, <1>9 DEF vars
<1> QED
  BY <1>2, <1>3, <1>4, <1>5, <1>6, <1>7, <1>8, <1>9 DEF Next, Handles

-----------------------------------------------------------------------------
(* Every callback gives up what is over. *)

(* A callback where it was. *)
LEMMA WaitsKept ==
  ASSUME NEW t \in Reconciler, NEW u \in Reconciler, NEW p, Waits(t, p),
         Over(p) => Over(p)' /\ fetching'[p] \subseteq fetching[p],
         u.pc = t.pc, u.todo = t.todo, u.waits = t.waits, u.snap = t.snap,
         u.old \subseteq t.old, u.silent \subseteq t.silent
  PROVE  Waits(u, p)'
BY DEF Waits

(* A callback that has no prompt to wait for. *)
LEMMA WaitsForNone ==
  ASSUME NEW t \in Reconciler, NEW u \in Reconciler, NEW p, Waits(t, p), Over(p) => Over(p)',
         t.pc \in {"loop", "await", "recover"}, u.pc \in {"idle", "loop"},
         u.pc = "loop" => u.old = t.old /\ u.silent = t.silent /\ u.snap = t.snap
  PROVE  Waits(u, p)'
BY DEF Waits

LEMMA ReconcilerWaits ==
  ASSUME TypeInv, TypeInv', LeftInv, [Next]_vars, NEW r \in Ticks, Reconciles(r),
         NEW p \in Prompts, Spared(p), Spared(p)', Waits(tick[r], p), ImagesKept(p)
  PROVE  Waits(tick[r], p)'
<1>0. /\ tick \in [Ticks -> Reconciler] /\ tick[r] \in Reconciler /\ tick'[r] \in Reconciler
      /\ (Over(p) => Over(p)' /\ fetching'[p] \subseteq fetching[p])
      /\ LooksBack(tick[r])
  BY OverKept, OverFetches DEF TypeInv, TypeOK, LeftInv
<1>1. CASE TickStarts(r) \/ GetQueue(r)
  <2>1. tick'[r].pc \in {"query", "answered"}
    BY <1>0, <1>1 DEF TickStarts, GetQueue, Sleeping, Reconciler
  <2> QED
    BY <2>1 DEF Waits
<1>2. CASE QueueKnown(r)
  <2>1. tick'[r] = IF pending = <<>> THEN Sleeping ELSE InLoop(tick[r])
    BY <1>0, <1>2 DEF QueueKnown
  <2>2. CASE pending = <<>>
    <3>1. tick'[r].pc = "idle"
      BY <2>1, <2>2 DEF Sleeping
    <3> QED
      BY <3>1 DEF Waits
  <2>3. CASE pending # <<>>
    <3>1. /\ tick'[r].pc = "loop" /\ tick'[r].old \subseteq tick[r].old
          /\ tick'[r].silent \subseteq tick[r].silent /\ tick'[r].snap = tick[r].snap
          /\ tick'[r].late = tick[r].late
      <4>1. tick'[r] = InLoop(tick[r])
        BY <2>1, <2>3
      <4>2. /\ InLoop(tick[r]).pc = "loop" /\ InLoop(tick[r]).snap = tick[r].snap
            /\ InLoop(tick[r]).old = tick[r].old \cap aged
            /\ InLoop(tick[r]).silent = {x \in tick[r].silent : activity[x] = "aged"}
            /\ InLoop(tick[r]).late = tick[r].late
        BY <1>0 DEF InLoop, Reconciler
      <4> QED
        BY <4>1, <4>2
    <3>2. ASSUME p \in (tick'[r].old \cup tick'[r].silent) \ tick'[r].snap PROVE Over(p)
      <4>0. tick[r].pc = "answered" /\ ~tick[r].late
        BY <1>0, <1>2 DEF LooksBack, QueueKnown
      <4>1. Left(p)
        BY <1>0, <3>1, <3>2, <4>0 DEF LooksBack, Looked
      <4>2. srv[p] = "gone"
        BY <4>1 DEF Left, Spared
      <4>3. missed' = missed \cup {x \in Prompts : \E e \in Range(chan) : About(e, x)}
        BY <1>2 DEF QueueKnown
      <4>4. \A e \in Range(chan) : ~About(e, p)
        BY <4>3 DEF Spared
      <4>5. \A i \in 1..Len(chan) : chan[i] \in Range(chan)
        BY TypeFacts, RangeIsElems DEF TypeInv, Elems
      <4> QED
        BY <4>2, <4>4, <4>5 DEF Over
    <3> QED
      BY <1>0, <3>1, <3>2 DEF Waits
  <2> QED
    BY <2>2, <2>3
(* The prompts tracked at a late answer are not spared. *)
<1>2a. CASE QueueLate(r)
  <2>1. tick'[r] = IF pending = <<>> THEN Sleeping ELSE InLoopLate(tick[r])
    BY <1>0, <1>2a DEF QueueLate
  <2>2. CASE pending = <<>>
    <3>1. tick'[r].pc = "idle"
      BY <2>1, <2>2 DEF Sleeping
    <3> QED
      BY <3>1 DEF Waits
  <2>3. CASE pending # <<>>
    <3>1. p \notin Range(pending)
      BY <1>2a DEF QueueLate, Spared
    <3>2. /\ InLoopLate(tick[r]).pc = "loop"
          /\ InLoopLate(tick[r]).old \cup InLoopLate(tick[r]).silent \subseteq Range(pending)
      BY <1>0 DEF InLoopLate, Reconciler
    <3>3. tick'[r] = InLoopLate(tick[r])
      BY <2>1, <2>3
    <3>4. tick'[r].pc = "loop" /\ p \notin tick'[r].old \cup tick'[r].silent
      BY <3>1, <3>2, <3>3
    <3> QED
      BY <3>4 DEF Waits
  <2> QED
    BY <2>2, <2>3
<1>3. ASSUME tick[r].pc \in {"loop", "await", "recover"}, tick'[r] = GoOn(tick[r])
      PROVE  Waits(tick[r], p)'
  <2>1. /\ GoOn(tick[r]).pc \in {"idle", "loop"}
        /\ GoOn(tick[r]).pc = "loop" =>
             /\ GoOn(tick[r]).old = tick[r].old
             /\ GoOn(tick[r]).silent = tick[r].silent /\ GoOn(tick[r]).snap = tick[r].snap
    BY <1>0, GoOnType
  <2>2. /\ tick'[r].pc \in {"idle", "loop"}
        /\ tick'[r].pc = "loop" => /\ tick'[r].old = tick[r].old
                                   /\ tick'[r].silent = tick[r].silent
                                   /\ tick'[r].snap = tick[r].snap
    BY <1>3, <2>1
  <2> QED
    BY <1>0, <1>3, <2>2, WaitsForNone
<1>4. CASE TickSkips(r)
  <2>1. tick'[r] = GoOn(tick[r]) /\ tick[r].pc = "loop"
    BY <1>0, <1>4 DEF TickSkips
  <2> QED
    BY <1>3, <2>1
<1>5. ASSUME NEW u \in Reconciler, NEW q, q = Head(tick[r].todo), q = p => Over(p),
             tick'[r] = u, u.pc \in {"await", "recover"}, u.todo = tick[r].todo,
             u.old = tick[r].old, u.silent = tick[r].silent, u.snap = tick[r].snap,
             tick[r].pc \in {"loop", "await"},
             u.pc = "await" /\ q = p => fetching'[p] \subseteq u.waits
      PROVE  Waits(tick[r], p)'
  BY <1>0, <1>5 DEF Waits
<1>6. ASSUME NEW q, q = Head(tick[r].todo), NEW guard, GiveUpNow(r, q, guard),
             tick[r].pc \in {"loop", "await"}, q = p => Over(p)
      PROVE  Waits(tick[r], p)'
  <2>1. CASE NothingToShow(q)
    <3> DEFINE u == [tick[r] EXCEPT !.pc = "recover", !.waits = {}, !.guard = guard]
    <3>1. tick'[r] = u
      BY <1>0, <1>6, <2>1 DEF GiveUpNow
    <3>2. /\ u.pc = "recover" /\ u.old = tick[r].old /\ u.silent = tick[r].silent
          /\ u.snap = tick[r].snap /\ u.todo = tick[r].todo
      BY <1>0 DEF Reconciler
    <3> HIDE DEF u
    <3> QED
      BY <1>0, <1>5, <1>6, <3>1, <3>2
  <2>2. CASE ~NothingToShow(q)
    <3>1. tick'[r] = GoOn(tick[r])
      BY <1>0, <1>6, <2>2 DEF GiveUpNow
    <3> QED
      BY <1>3, <1>6, <3>1
  <2> QED
    BY <2>1, <2>2
<1>7. ASSUME NEW q, q = Head(tick[r].todo),
             \/ tick[r].pc = "loop" /\ Overdue(tick[r], q)
             \/ tick[r].pc = "await"
      PROVE  q = p => Over(p)
  BY <1>7, OverdueIsOver DEF ImagesKept
<1>8. CASE TickCompletes(r)
  BY <1>6, <1>7, <1>8 DEF TickCompletes
<1>9. CASE TickWaits(r)
  <2>1. PICK q : q = Head(tick[r].todo) /\ tick[r].pc = "loop" /\ Overdue(tick[r], q)
    BY <1>9 DEF TickWaits
  <2> DEFINE u == [tick[r] EXCEPT !.pc = "await", !.waits = registered[q], !.guard = GuardOf(tick[r], q)]
  <2>2. tick'[r] = u /\ UNCHANGED fetching
    BY <1>0, <1>9, <2>1 DEF TickWaits, collected
  <2>3. /\ u.pc = "await" /\ u.old = tick[r].old /\ u.silent = tick[r].silent
        /\ u.snap = tick[r].snap /\ u.todo = tick[r].todo /\ u.waits = registered[q]
    BY <1>0 DEF Reconciler
  <2> HIDE DEF u
  <2>4. (q = p => Over(p)) /\ fetching[p] \subseteq registered[p]
    BY <1>7, <2>1 DEF ImagesKept
  <2> QED
    BY <1>0, <1>5, <2>1, <2>2, <2>3, <2>4
<1>10. CASE TickAfterFetches(r)
  BY <1>6, <1>7, <1>10 DEF TickAfterFetches
<1>11. CASE TickAfterRecovery(r)
  <2>1. tick'[r] = GoOn(tick[r]) /\ tick[r].pc = "recover"
    BY <1>0, <1>11 DEF TickAfterRecovery
  <2> QED
    BY <1>3, <2>1
<1> QED
  BY <1>1, <1>2, <1>2a, <1>4, <1>8, <1>9, <1>10, <1>11 DEF Reconciles

LEMMA NextWaits ==
  ASSUME TypeInv, LeftInv, SparedInv, [Next]_vars, NEW p \in Prompts, Spared(p)', NEW r \in Ticks
  PROVE  Waits(tick[r], p)'
<1>0. /\ TypeInv' /\ tick[r] \in Reconciler /\ tick'[r] \in Reconciler
      /\ Spared(p) /\ Waits(tick[r], p) /\ ImagesKept(p)
      /\ (Over(p) => Over(p)' /\ fetching'[p] \subseteq fetching[p])
  BY SparedBefore, NextTypeInv, OverKept, OverFetches DEF SparedInv, TypeInv, TypeOK
<1>1. CASE Reconciles(r)
  BY <1>0, <1>1, ReconcilerWaits
<1>2. CASE tick'[r] = tick[r]
  BY <1>0, <1>2, WaitsKept
<1>3. CASE \E q : Heard(q)
  <2>1. /\ tick'[r].pc = tick[r].pc /\ tick'[r].todo = tick[r].todo
        /\ tick'[r].waits = tick[r].waits
        /\ tick'[r].old = tick[r].old /\ tick'[r].snap = tick[r].snap
        /\ tick'[r].silent \subseteq tick[r].silent
    BY <1>3, TickHeard DEF TypeInv
  <2> QED
    BY <1>0, <2>1, WaitsKept
<1>4. CASE \E q \in Ticks : q # r /\ Reconciles(q)
  <2>1. tick'[r] = tick[r]
    BY <1>4 DEF Reconciles, TickStarts, GetQueue, QueueKnown, QueueLate, TickSkips, TickCompletes,
                TickWaits, TickAfterFetches, TickAfterRecovery, GiveUpNow, TypeInv, TypeOK
  <2> QED
    BY <1>2, <2>1
<1> QED
  BY <1>1, <1>2, <1>3, <1>4, TickKept

-----------------------------------------------------------------------------
(* What becomes of the images. *)

LEMMA AnnouncedAre ==
  ASSUME NEW p
  PROVE  \A o : o \in Announced(p) <=> \E i \in 1..Len(chan) : Is(chan[i], "output", p) /\ chan[i].output = o
BY DEF Announced

(* Other events are sent. *)
LEMMA EmittedElse ==
  ASSUME TypeOK, NEW p, NEW events \in Seq(Event), Emit(events), Ended(p)' = Ended(p),
         \A j \in 1..Len(events) : ~Is(events[j], "output", p) /\ ~Is(events[j], "done", p)
  PROVE  Announced(p)' = Announced(p) /\ Finished(p)' = Finished(p)
<1>1. /\ \A i \in 1..Len(chan) : i \in 1..Len(chan') /\ chan'[i] = chan[i]
      /\ \A i \in 1..Len(chan') : \A k \in {"output", "done"} :
           Is(chan'[i], k, p) => i \in 1..Len(chan) /\ chan'[i] = chan[i]
  BY EmitPlaces
<1>2. Announced(p)' = Announced(p)
  BY <1>1 DEF Announced
<1>3. Finished(p)' = Finished(p)
  BY <1>1 DEF Finished
<1> QED
  BY <1>2, <1>3

(* An event is handled that is not an image of p, nor its last. *)
LEMMA TakenElse ==
  ASSUME TypeOK, NEW p, chan # <<>>, Taken, ~Is(chan[1], "output", p), ~Is(chan[1], "done", p)
  PROVE  Announced(p)' = Announced(p) /\ Finished(p)' = Finished(p) /\ Ended(p)' = Ended(p)
<1>1. /\ \A i \in 1..Len(chan') : i + 1 \in 1..Len(chan) /\ chan'[i] = chan[i + 1]
      /\ Len(chan') = Len(chan) - 1 /\ Len(chan) \in Nat /\ srv' = srv
  BY TakenElems, FirstTaken DEF Taken, server, TypeOK
<1>2. \A i \in 1..Len(chan) : \A k \in {"output", "done"} : Is(chan[i], k, p) =>
        i - 1 \in 1..Len(chan') /\ chan'[i - 1] = chan[i]
  <2>1. ASSUME NEW i \in 1..Len(chan), i # 1 PROVE i - 1 \in 1..Len(chan') /\ chan'[i - 1] = chan[i]
    BY <1>1, <2>1
  <2> QED
    BY <2>1
<1>3. Ended(p)' = Ended(p)
  BY <1>1 DEF Ended
<1>4. ASSUME NEW o PROVE o \in Announced(p)' <=> o \in Announced(p)
  <2>1. o \in Announced(p)' => o \in Announced(p)
    BY <1>1 DEF Announced
  <2>2. o \in Announced(p) => o \in Announced(p)'
    <3>1. SUFFICES ASSUME NEW i \in 1..Len(chan), Is(chan[i], "output", p), chan[i].output = o
                   PROVE  \E j \in 1..Len(chan') : Is(chan'[j], "output", p) /\ chan'[j].output = o
      BY DEF Announced
    <3>2. i - 1 \in 1..Len(chan') /\ chan'[i - 1] = chan[i]
      BY <1>2, <3>1
    <3> QED
      BY <3>1, <3>2
  <2> QED
    BY <2>1, <2>2
<1>5. Announced(p)' = Announced(p)
  BY <1>4
<1>6. Finished(p)' = Finished(p)
  BY <1>1, <1>2, <1>3 DEF Finished
<1> QED
  BY <1>3, <1>5, <1>6

(* What a step may leave alone of p. *)
SameImages(p) ==
  /\ cache'[p] = cache[p] /\ fetching'[p] = fetching[p] /\ registered'[p] = registered[p]
  /\ images'[p] = images[p] /\ shown'[p] = shown[p] /\ gallery'[p] = gallery[p]
  /\ closing'[p] = closing[p]

LEMMA ImagesSame ==
  ASSUME NEW p, ImagesKept(p), SameImages(p), activity'[p] # "reset", Ended(p)' = Ended(p),
         Finished(p)' = Finished(p), Announced(p)' = Announced(p)
  PROVE  ImagesKept(p)'
BY DEF ImagesKept, SameImages

LEMMA ImagesServed ==
  ASSUME TypeInv, NEW q \in Prompts,
         Accept(q) \/ Run(q) \/ End(q) \/ Break(q) \/ Forget(q) \/ \E o \in Outputs : Output(q, o),
         NEW p \in Prompts, EventsInOrder(p), ImagesKept(p), Spared(p)'
  PROVE  ImagesKept(p)'
<1> USE DEF client, server, stream, bounds, collected, outcome
<1>0. /\ TypeOK /\ srv \in [Prompts -> {"none", "held", "running", "ended", "gone"}]
      /\ cache \in [Prompts -> SUBSET Outputs]
  BY DEF TypeInv, TypeOK
<1>1. ASSUME UNCHANGED <<cache, client>> PROVE SameImages(p) /\ activity'[p] # "reset"
  BY <1>1 DEF SameImages, ImagesKept
<1>2. ASSUME NEW events \in Seq(Event), Emit(events), Ended(p)' = Ended(p),
             \A j \in 1..Len(events) : ~Is(events[j], "output", p) /\ ~Is(events[j], "done", p),
             SameImages(p) /\ activity'[p] # "reset"
      PROVE  ImagesKept(p)'
  BY <1>0, <1>2, EmittedElse, ImagesSame
<1>3. ASSUME NEW e \in Event, Emit(<<e>>), Ended(p)' = Ended(p),
             ~Is(e, "output", p) /\ ~Is(e, "done", p), SameImages(p) /\ activity'[p] # "reset"
      PROVE  ImagesKept(p)'
  <2>1. <<e>> \in Seq(Event)
        /\ \A j \in 1..Len(<<e>>) : ~Is(<<e>>[j], "output", p) /\ ~Is(<<e>>[j], "done", p)
    BY <1>3
  <2> QED
    BY <1>2, <1>3, <2>1
<1>4. CASE Accept(q)
  <2>1. Ended(p)' = Ended(p)
    BY <1>0, <1>4 DEF Accept, Ended
  <2>2. SameImages(p) /\ activity'[p] # "reset"
    BY <1>1, <1>4 DEF Accept
  <2> QED
    BY <1>3, <1>4, <2>1, <2>2, EventTypes, KindOf DEF Accept, Is
<1>5. CASE Run(q)
  <2> DEFINE e == OfKind("executing", q)
             f == OfKind("preview", q)
  <2>1. e \in Event /\ f \in Event /\ e.kind = "executing" /\ f.kind = "preview" /\ Emit(<<e, f>>)
    BY <1>5, EventTypes, KindOf DEF Run, EmitOf
  <2>2. Ended(p)' = Ended(p)
    BY <1>0, <1>5 DEF Run, Ended
  <2>3. SameImages(p) /\ activity'[p] # "reset"
    BY <1>1, <1>5 DEF Run
  <2> HIDE DEF e, f
  <2>4. <<e, f>> \in Seq(Event) /\ \A j \in 1..Len(<<e, f>>) : <<e, f>>[j] \in {e, f}
    BY <2>1
  <2>5. \A j \in 1..Len(<<e, f>>) : ~Is(<<e, f>>[j], "output", p) /\ ~Is(<<e, f>>[j], "done", p)
    BY <2>1, <2>4 DEF Is
  <2> QED
    BY <1>2, <2>1, <2>2, <2>3, <2>4, <2>5
<1>6. CASE End(q)
  <2>1. /\ srv[q] = "running" /\ cache[q] = OutputsOf[q] /\ Emit(<<OfKind("done", q)>>)
        /\ srv' = [srv EXCEPT ![q] = "ended"] /\ UNCHANGED <<cache, pending>>
        /\ missed' = (IF link.open THEN missed ELSE missed \cup {q})
        /\ SameImages(p) /\ activity'[p] # "reset"
    BY <1>1, <1>6 DEF End, EmitOf
  <2>2. CASE q = p
    <3> DEFINE e == OfKind("done", q)
    <3>1. link.open /\ ~Ended(p) /\ ~Finished(p)
      BY <1>0, <2>1, <2>2 DEF Spared, TypeOK, Ended, Finished
    <3>2. e \in Event /\ Is(e, "done", p) /\ ~Is(e, "output", p) /\ chan' = chan \o <<e>>
      BY <2>1, <2>2, <3>1, EventTypes, KindOf DEF Is, Emit
    <3> HIDE DEF e
    <3>3. /\ Len(chan') = Len(chan) + 1 /\ Len(chan) \in Nat
          /\ \A i \in 1..Len(chan) : chan'[i] = chan[i] /\ i \in 1..Len(chan')
          /\ chan'[Len(chan) + 1] = e
          /\ \A i \in 1..Len(chan') : i \in 1..Len(chan) \/ i = Len(chan) + 1
      BY <1>0, <2>1, <3>2, AppendPlaces
    <3>4. ~Finished(p)'
      BY <3>2, <3>3 DEF Finished
    <3>5. Announced(p)' = Announced(p)
      <4>1. \A i \in 1..Len(chan') : Is(chan'[i], "output", p) => i \in 1..Len(chan)
        BY <3>2, <3>3
      <4> QED
        BY <3>3, <4>1 DEF Announced
    <3> QED
      BY <2>1, <2>2, <3>1, <3>4, <3>5 DEF ImagesKept, SameImages
  <2>3. CASE q # p
    <3>1. Ended(p)' = Ended(p)
      BY <1>0, <2>1, <2>3 DEF Ended
    <3> QED
      BY <1>3, <2>1, <2>3, <3>1, EventTypes, KindOf DEF Is
  <2> QED
    BY <2>2, <2>3
<1>7. CASE Break(q)
  <2>1. q # p /\ Emit(<<OfKind("error", q)>>) /\ srv' = [srv EXCEPT ![q] = "ended"]
        /\ SameImages(p) /\ activity'[p] # "reset"
    BY <1>1, <1>7 DEF Break, Spared
  <2>2. Ended(p)' = Ended(p)
    BY <1>0, <2>1 DEF Ended
  <2> QED
    BY <1>3, <2>1, <2>2, EventTypes, KindOf DEF Is
<1>8. CASE Forget(q)
  <2> DEFINE es == ForEach("queued", InQueue \ {q})
  <2>1. InQueue \ {q} \in SUBSET Prompts
    BY DEF InQueue
  <2>2. /\ es \in Seq(Event)
        /\ \A i \in 1..Len(es) : \E x \in InQueue \ {q} : es[i] = OfKind("queued", x)
    BY <2>1, ForEachType
  <2>3. /\ Emit(es) /\ Ended(p)' = Ended(p) /\ SameImages(p) /\ activity'[p] # "reset"
    BY <1>0, <1>1, <1>8 DEF Forget, Ended
  <2> HIDE DEF es
  <2>4. \A j \in 1..Len(es) : es[j].kind = "queued"
    BY <2>2, KindOf
  <2>5. \A j \in 1..Len(es) : ~Is(es[j], "output", p) /\ ~Is(es[j], "done", p)
    BY <2>4 DEF Is
  <2> QED
    BY <1>2, <2>2, <2>3, <2>5
<1>9. ASSUME NEW o \in Outputs, Output(q, o) PROVE ImagesKept(p)'
  <2> DEFINE e == [kind |-> "output", prompt |-> q, output |-> o]
  <2>1. e \in Event /\ e.kind = "output" /\ e.prompt = q /\ e.output = o
    BY EventTypes
  <2>2. /\ srv[q] = "running" /\ Emit(<<e>>) /\ UNCHANGED <<pending, link.open, srv, client>>
        /\ missed' = (IF link.open THEN missed ELSE missed \cup {q})
        /\ cache' = [cache EXCEPT ![q] = @ \cup {o}]
    BY <1>9 DEF Output, EmitOf
  <2> HIDE DEF e
  <2>3. CASE q = p
    <3>1. link.open /\ ~Ended(p) /\ ~Finished(p) /\ ~Ended(p)' /\ ~Finished(p)' /\ chan' = chan \o <<e>>
      BY <1>0, <2>2, <2>3 DEF Spared, TypeOK, Ended, Finished, Emit
    <3>2. /\ Len(chan') = Len(chan) + 1 /\ Len(chan) \in Nat
          /\ \A i \in 1..Len(chan) : chan'[i] = chan[i] /\ i \in 1..Len(chan')
          /\ chan'[Len(chan) + 1] = e
          /\ \A i \in 1..Len(chan') : i \in 1..Len(chan) \/ i = Len(chan) + 1
      BY <1>0, <2>1, <2>2, <3>1, AppendPlaces
    <3>3. Announced(p)' = Announced(p) \cup {o}
      <4>1. ASSUME NEW x \in Announced(p)' PROVE x \in Announced(p) \cup {o}
        <5>1. PICK i \in 1..Len(chan') : Is(chan'[i], "output", p) /\ chan'[i].output = x
          BY <4>1 DEF Announced
        <5>2. CASE i \in 1..Len(chan)
          BY <3>2, <5>1, <5>2 DEF Announced
        <5>3. CASE i = Len(chan) + 1
          BY <2>1, <3>2, <5>1, <5>3
        <5> QED
          BY <3>2, <5>2, <5>3
      <4>2. ASSUME NEW x \in Announced(p) PROVE x \in Announced(p)'
        <5>1. PICK i \in 1..Len(chan) : Is(chan[i], "output", p) /\ chan[i].output = x
          BY <4>2 DEF Announced
        <5> QED
          BY <3>2, <5>1 DEF Announced
      <4>3. o \in Announced(p)'
        <5>1. Len(chan) + 1 \in 1..Len(chan')
          BY <3>2
        <5>2. Is(chan'[Len(chan) + 1], "output", p) /\ chan'[Len(chan) + 1].output = o
          BY <2>1, <2>3, <3>2 DEF Is
        <5> QED
          BY <5>1, <5>2 DEF Announced
      <4> QED
        BY <4>1, <4>2, <4>3
    <3>4. cache'[p] = cache[p] \cup {o}
      BY <1>0, <2>2, <2>3
    <3> QED
      BY <2>2, <3>1, <3>3, <3>4 DEF ImagesKept
  <2>4. CASE q # p
    <3>1. SameImages(p) /\ activity'[p] # "reset"
      BY <1>0, <2>2, <2>4 DEF SameImages, ImagesKept
    <3>2. Ended(p)' = Ended(p)
      BY <2>2 DEF Ended
    <3> QED
      BY <1>3, <2>1, <2>2, <2>4, <3>1, <3>2 DEF Is
  <2> QED
    BY <2>3, <2>4
<1> QED
  BY <1>4, <1>5, <1>6, <1>7, <1>8, <1>9

(* Nothing is sent nor handled. *)
LEMMA ImagesUnmoved ==
  ASSUME NEW p, ImagesKept(p), SameImages(p), activity'[p] # "reset", UNCHANGED <<srv, chan>>
  PROVE  ImagesKept(p)'
<1>1. Announced(p)' = Announced(p) /\ Finished(p)' = Finished(p) /\ Ended(p)' = Ended(p)
  BY DEF Announced, Finished, Ended
<1> QED
  BY <1>1, ImagesSame

(* All of the images are put on show, or none. *)
LEMMA FinalizeAll ==
  ASSUME TypeInv, NEW p \in Prompts, NEW imgs \in {{}, OutputsOf[p]}, Finalize(p, imgs),
         shown[p] > 0 => gallery[p] = OutputsOf[p]
  PROVE  /\ shown'[p] > 0 => gallery'[p] = OutputsOf[p]
         /\ \A q \in Prompts \ {p} : shown'[q] = shown[q] /\ gallery'[q] = gallery[q]
<1>1. shown \in [Prompts -> Nat] /\ gallery \in [Prompts -> SUBSET Outputs]
  BY DEF TypeInv, TypeOK
<1>2. /\ shown' = [shown EXCEPT ![p] = @ + (IF imgs = {} THEN 0 ELSE 1)]
      /\ gallery' = [gallery EXCEPT ![p] = IF imgs = {} THEN @ ELSE imgs]
  BY DEF Finalize
<1>3. CASE imgs = {}
  <2>1. shown'[p] = shown[p] /\ gallery'[p] = gallery[p]
    BY <1>1, <1>2, <1>3
  <2> QED
    BY <1>1, <1>2, <2>1
<1>4. CASE imgs # {}
  <2>1. gallery'[p] = imgs
    BY <1>1, <1>2, <1>4
  <2> QED
    BY <1>1, <1>2, <1>4, <2>1
<1> QED
  BY <1>3, <1>4

LEMMA CompleteAll ==
  ASSUME TypeInv, NEW p \in Prompts, Complete(p), images[p] \in {{}, OutputsOf[p]},
         shown[p] > 0 => gallery[p] = OutputsOf[p]
  PROVE  /\ activity'[p] = "none" /\ images'[p] \in {{}, OutputsOf[p]}
         /\ shown'[p] > 0 => gallery'[p] = OutputsOf[p]
<1>1. activity'[p] = "none"
  BY DEF Complete, CompletePrompt, TypeInv, TypeOK
<1>2. CASE Tracked(p)
  <2>1. Finalize(p, images[p]) /\ images' = [images EXCEPT ![p] = {}]
    BY <1>2 DEF Complete
  <2>2. images'[p] = {}
    BY <2>1 DEF TypeInv, TypeOK
  <2> QED
    BY <1>1, <2>1, <2>2, FinalizeAll
<1>3. CASE ~Tracked(p)
  BY <1>1, <1>3 DEF Complete
<1> QED
  BY <1>2, <1>3

(* Another prompt is completed. *)
LEMMA CompleteElse ==
  ASSUME TypeInv, NEW q \in Prompts, Complete(q), NEW p \in Prompts, p # q
  PROVE  /\ activity'[p] = activity[p] /\ images'[p] = images[p]
         /\ shown'[p] = shown[p] /\ gallery'[p] = gallery[p]
<1>1. activity'[p] = activity[p]
  BY DEF Complete, CompletePrompt, TypeInv, TypeOK
<1>2. CASE Tracked(q)
  BY <1>1, <1>2 DEF Complete, Finalize, TypeInv, TypeOK
<1>3. CASE ~Tracked(q)
  BY <1>1, <1>3 DEF Complete
<1> QED
  BY <1>2, <1>3

(* p is completed when nothing is fetched any more. *)
LEMMA ImagesCompleted ==
  ASSUME TypeInv, NEW p \in Prompts, ImagesKept(p), Complete(p),
         images[p] \cup fetching[p] \in {{}, OutputsOf[p]}, fetching[p] = {},
         UNCHANGED <<fetching, cache, srv>>, Finished(p)'
  PROVE  ImagesKept(p)'
<1>1. /\ activity'[p] = "none" /\ images'[p] \in {{}, OutputsOf[p]}
      /\ shown'[p] > 0 => gallery'[p] = OutputsOf[p]
  <2>1. images[p] \in {{}, OutputsOf[p]} /\ (shown[p] > 0 => gallery[p] = OutputsOf[p])
    BY DEF ImagesKept
  <2> QED
    BY <2>1, CompleteAll
<1>2. (Ended(p)' => cache'[p] = OutputsOf[p]) /\ fetching'[p] = {}
  BY DEF ImagesKept, Ended
<1> QED
  BY <1>1, <1>2 DEF ImagesKept

(* Copies of the server are put on show. *)
LEMMA ImagesRecovered ==
  ASSUME TypeInv, NEW p \in Prompts, ImagesKept(p), Finished(p), NEW imgs, Recovered(p, imgs),
         Finalize(p, imgs), Spared(p)', UNCHANGED <<fetching, registered, images, cache, srv, chan, activity>>,
         closing'[p] = closing[p] \/ closing'[p].pc = "idle"
  PROVE  ImagesKept(p)'
<1>1. imgs = OutputsOf[p]
  BY DEF Recovered, Spared, ImagesKept, Finished
<1>2. shown'[p] > 0 => gallery'[p] = OutputsOf[p]
  BY <1>1, FinalizeAll DEF ImagesKept
<1>3. Finished(p)' /\ Ended(p)' = Ended(p)
  BY DEF Finished, Ended
<1> QED
  BY <1>2, <1>3 DEF ImagesKept

LEMMA ImagesHandled ==
  ASSUME TypeInv, Handles, NEW p \in Prompts, EventsInOrder(p), ImagesKept(p)
  PROVE  ImagesKept(p)'
<1> USE DEF view, collected, outcome
<1>0. /\ chan # <<>> /\ Taken /\ Head(chan) = chan[1] /\ 1 \in 1..Len(chan) /\ chan[1] \in Event
      /\ srv' = srv /\ cache' = cache /\ TypeOK
      /\ \A i \in 1..Len(chan') : i + 1 \in 1..Len(chan) /\ chan'[i] = chan[i + 1]
  <2>1. chan # <<>> /\ Taken
    BY DEF Handles, OnQueued, OnExecuting, OnPreview, OnOutput, OnDone, OnError, OnCleared, NextIs
  <2> QED
    BY <2>1, TakenFacts, TakenElems, TypeFacts, FirstTaken DEF TypeInv
<1>1. ASSUME ~Is(chan[1], "output", p), ~Is(chan[1], "done", p), SameImages(p), activity'[p] # "reset"
      PROVE  ImagesKept(p)'
  BY <1>0, <1>1, TakenElse, ImagesSame
<1>2. CASE OnQueued \/ OnExecuting \/ OnPreview
  <2>1. SameImages(p)
    BY <1>0, <1>2 DEF OnQueued, OnExecuting, OnPreview, SameImages
  <2>2. activity'[p] # "reset"
    BY <1>2 DEF OnQueued, OnExecuting, OnPreview, Heard, ImagesKept, TypeInv, TypeOK
  <2>3. ~Is(chan[1], "output", p) /\ ~Is(chan[1], "done", p)
    BY <1>0, <1>2 DEF OnQueued, OnExecuting, OnPreview, NextIs, Is
  <2> QED
    BY <1>1, <2>1, <2>2, <2>3
<1>3. CASE OnOutput
  <2>1. chan[1].kind = "output" /\ chan[1].prompt \in Prompts /\ UNCHANGED <<images, shown, gallery, closing, activity>>
    BY <1>0, <1>3, EventTypes DEF OnOutput, NextIs
  <2>2. CASE chan[1].prompt = p
    <3>1. Is(chan[1], "output", p) /\ ~Is(chan[1], "done", p)
      BY <2>1, <2>2 DEF Is
    <3>2. TrackedThen(Tracked(p), chan, 1 - 1, p) /\ (Ended(p) => \E j \in 1..Len(chan) : Is(chan[j], "done", p))
      BY <1>0, <3>1 DEF EventsInOrder
    <3>3. Tracked(p)
      BY <3>2 DEF TrackedThen
    <3> DEFINE o == chan[1].output
    <3>4. /\ fetching'[p] = fetching[p] \cup {o} /\ registered'[p] = registered[p] \cup {o}
      BY <1>0, <1>3, <2>2, <3>3 DEF OnOutput, TypeOK
    <3>5. ~Finished(p) /\ ~Finished(p)' /\ Ended(p)' = Ended(p)
      <4>1. \A j \in 1..Len(chan) : Is(chan[j], "done", p) => j - 1 \in 1..Len(chan') /\ chan'[j - 1] = chan[j]
        <5>1. Len(chan') = Len(chan) - 1 /\ Len(chan) \in Nat
          BY <1>0, FirstTaken DEF Taken, TypeOK
        <5> QED
          BY <1>0, <3>1, <5>1
      <4> QED
        BY <1>0, <3>2, <4>1 DEF Finished, Ended
    <3>6. \A x : x \in Announced(p) <=> x \in Announced(p)' \cup {o}
      <4>1. ASSUME NEW x \in Announced(p) PROVE x \in Announced(p)' \cup {o}
        <5>1. PICK i \in 1..Len(chan) : Is(chan[i], "output", p) /\ chan[i].output = x
          BY <4>1 DEF Announced
        <5>2. CASE i # 1
          <6>1. i - 1 \in 1..Len(chan') /\ chan'[i - 1] = chan[i]
            <7>1. Len(chan') = Len(chan) - 1 /\ Len(chan) \in Nat
              BY <1>0, FirstTaken DEF Taken, TypeOK
            <7> QED
              BY <1>0, <5>2, <7>1
          <6>2. Is(chan'[i - 1], "output", p) /\ chan'[i - 1].output = x
            BY <5>1, <6>1
          <6> QED
            BY <6>1, <6>2 DEF Announced
        <5> QED
          BY <5>1, <5>2
      <4>2. ASSUME NEW x \in Announced(p)' PROVE x \in Announced(p)
        <5>1. PICK i \in 1..Len(chan') : Is(chan'[i], "output", p) /\ chan'[i].output = x
          BY <4>2 DEF Announced
        <5> QED
          BY <1>0, <5>1 DEF Announced
      <4>3. o \in Announced(p)
        BY <1>0, <3>1 DEF Announced
      <4> QED
        BY <4>1, <4>2, <4>3
    <3>7. cache[p] = images[p] \cup fetching[p] \cup Announced(p) /\ shown[p] = 0 /\ closing[p].pc = "idle"
      BY <3>5 DEF ImagesKept
    <3>8. cache'[p] = images'[p] \cup fetching'[p] \cup Announced(p)'
      BY <1>0, <2>1, <3>4, <3>6, <3>7
    <3> QED
      BY <1>0, <2>1, <3>4, <3>5, <3>7, <3>8 DEF ImagesKept
  <2>3. CASE chan[1].prompt # p
    <3>1. SameImages(p) /\ activity'[p] # "reset"
      BY <1>0, <1>3, <2>1, <2>3 DEF OnOutput, SameImages, ImagesKept, TypeOK
    <3> QED
      BY <1>1, <2>1, <2>3, <3>1 DEF Is
  <2> QED
    BY <2>2, <2>3
<1>4. CASE OnDone
  <2>1. chan[1].kind = "done" /\ chan[1].prompt \in Prompts /\ UNCHANGED <<fetching, registered, cache, srv>>
    BY <1>0, <1>4, EventTypes DEF OnDone, NextIs
  <2>2. CASE chan[1].prompt = p
    <3>1. Is(chan[1], "done", p)
      BY <2>1, <2>2 DEF Is
    <3>2. /\ Ended(p) /\ TrackedThen(Tracked(p), chan, 1 - 1, p)
          /\ \A j \in (1 + 1)..Len(chan) : ~Is(chan[j], "output", p) /\ ~Is(chan[j], "done", p)
      BY <1>0, <3>1 DEF EventsInOrder
    <3>3. Tracked(p)
      BY <3>2 DEF TrackedThen
    <3>4. Finished(p)' /\ ~Finished(p)
      <4>1. \A i \in 1..Len(chan') : i + 1 \in (1 + 1)..Len(chan)
        BY <1>0
      <4> QED
        BY <1>0, <3>1, <3>2, <4>1 DEF Finished, Ended
    <3>5. Announced(p) = {}
      <4>1. \A i \in 1..Len(chan) : i = 1 \/ i \in (1 + 1)..Len(chan)
        BY <1>0
      <4>2. \A i \in 1..Len(chan) : ~Is(chan[i], "output", p)
        BY <3>1, <3>2, <4>1 DEF Is
      <4> QED
        BY <4>2 DEF Announced
    <3>6. images[p] \cup fetching[p] = OutputsOf[p]
      BY <3>2, <3>4, <3>5 DEF ImagesKept
    <3>7. CASE registered[p] = {}
      <4>1. fetching[p] = {} /\ Complete(p)
        BY <1>0, <1>4, <2>2, <3>3, <3>7 DEF OnDone, CloseNow, ImagesKept
      <4> QED
        BY <2>1, <3>4, <3>6, <4>1, ImagesCompleted
    <3>8. CASE registered[p] # {}
      <4>1. /\ closing'[p] = [pc |-> "await", waits |-> registered[p]]
            /\ activity'[p] = "recent" /\ UNCHANGED <<images, shown, gallery>>
        BY <1>0, <1>4, <2>2, <3>3, <3>8 DEF OnDone, Heard, TypeOK
      <4>2. Ended(p)' = Ended(p) /\ closing'[p].waits = registered[p]
        BY <1>0, <4>1 DEF Ended
      <4> QED
        BY <2>1, <3>4, <3>6, <4>1, <4>2 DEF ImagesKept
    <3> QED
      BY <3>7, <3>8
  <2>3. CASE chan[1].prompt # p
    <3>1. ~Is(chan[1], "output", p) /\ ~Is(chan[1], "done", p)
      BY <2>3 DEF Is
    <3>2. SameImages(p) /\ activity'[p] # "reset"
      <4> DEFINE q == chan[1].prompt
      <4>0. activity[p] # "reset"
        BY DEF ImagesKept
      <4>1. CASE ~Tracked(q)
        BY <1>0, <1>4, <2>1, <4>0, <4>1 DEF OnDone, SameImages
      <4>2. CASE CloseNow(q)
        <5>1. /\ activity'[p] = activity[p] /\ images'[p] = images[p]
              /\ shown'[p] = shown[p] /\ gallery'[p] = gallery[p]
          BY <2>1, <2>3, <4>2, CompleteElse DEF CloseNow
        <5>2. closing'[p] = closing[p]
          BY <1>0, <2>3, <4>2 DEF CloseNow, TypeOK
        <5> QED
          BY <2>1, <4>0, <5>1, <5>2 DEF SameImages
      <4>3. CASE /\ closing' = [closing EXCEPT ![q] = [pc |-> "await", waits |-> registered[q]]]
                 /\ Heard(q)
                 /\ UNCHANGED <<pending, active, preview, images, shown, gallery>>
        BY <1>0, <2>1, <2>3, <4>0, <4>3 DEF Heard, SameImages, TypeOK
      <4> QED
        BY <1>0, <1>4, <4>1, <4>2, <4>3 DEF OnDone
    <3> QED
      BY <1>1, <3>1, <3>2
  <2> QED
    BY <2>2, <2>3
<1>5. CASE OnError
  <2>1. chan[1].kind = "error" /\ chan[1].prompt # p
    BY <1>0, <1>5 DEF OnError, NextIs, EventsInOrder, Is
  <2>2. SameImages(p) /\ activity'[p] # "reset"
    BY <1>0, <1>5, <2>1 DEF OnError, SameImages, ImagesKept, TypeOK
  <2> QED
    BY <1>1, <2>1, <2>2 DEF Is
<1>6. CASE OnCleared
  <2>1. chan[1].kind = "cleared"
    BY <1>0, <1>6 DEF OnCleared, NextIs
  <2>2. SameImages(p) /\ activity'[p] # "reset"
    BY <1>0, <1>6 DEF OnCleared, SameImages
  <2> QED
    BY <1>1, <2>1, <2>2 DEF Is
<1> QED
  BY <1>2, <1>3, <1>4, <1>5, <1>6 DEF Handles

(* The handler of the last event has waited. *)
LEMMA ImagesClosed ==
  ASSUME TypeInv, NEW q \in Prompts, CloseAfterFetches(q), NEW p \in Prompts, ImagesKept(p), Spared(p)'
  PROVE  ImagesKept(p)'
<1> USE DEF server, stream
<1>0. TypeOK /\ activity[p] # "reset"
  BY DEF TypeInv, ImagesKept
<1>1. /\ Settled(q, closing[q].waits) /\ Complete(q) /\ closing[q].pc = "await"
      /\ registered' = [registered EXCEPT ![q] = {}]
      /\ UNCHANGED <<fetching, cache, srv, chan>>
      /\ closing' = [closing EXCEPT ![q] = [pc |-> IF NothingToShow(q) THEN "recover" ELSE "idle", waits |-> {}]]
  BY DEF CloseAfterFetches, CloseNow
<1>2. CASE q = p
  <2>1. Finished(p) /\ fetching[p] \subseteq closing[p].waits /\ images[p] \cup fetching[p] \in {{}, OutputsOf[p]}
    BY <1>1, <1>2 DEF ImagesKept
  <2>2. fetching[p] = {}
    BY <1>1, <1>2, <2>1 DEF Settled, Spared
  <2>3. Finished(p)'
    BY <1>1, <2>1 DEF Finished, Ended
  <2> QED
    BY <1>1, <1>2, <2>1, <2>2, <2>3, ImagesCompleted
<1>3. CASE q # p
  <2>1. /\ activity'[p] = activity[p] /\ images'[p] = images[p]
        /\ shown'[p] = shown[p] /\ gallery'[p] = gallery[p]
    BY <1>1, <1>3, CompleteElse
  <2>2. closing'[p] = closing[p] /\ registered'[p] = registered[p]
    BY <1>0, <1>1, <1>3 DEF TypeOK
  <2> QED
    BY <1>0, <1>1, <2>1, <2>2, ImagesUnmoved DEF SameImages
<1> QED
  BY <1>2, <1>3

(* A callback of the interval. *)
LEMMA ImagesReconciled ==
  ASSUME TypeInv, NEW r \in Ticks, Reconciles(r), NEW p \in Prompts, ImagesKept(p),
         Waits(tick[r], p), Spared(p)'
  PROVE  ImagesKept(p)'
<1> USE DEF server, stream, collected, outcome
<1>0. TypeOK /\ activity[p] # "reset"
  BY DEF TypeInv, ImagesKept
<1>1. CASE TickStarts(r) \/ GetQueue(r) \/ QueueKnown(r) \/ QueueLate(r) \/ TickSkips(r) \/ TickWaits(r)
  <2>1. UNCHANGED <<server, stream, activity, collected, closing, outcome>>
    BY <1>1 DEF TickStarts, GetQueue, QueueKnown, QueueLate, TickSkips, TickWaits
  <2> QED
    BY <1>0, <2>1, ImagesUnmoved DEF SameImages
<1>2. ASSUME NEW q \in Prompts, q = Head(tick[r].todo), Complete(q),
             UNCHANGED <<fetching, cache, srv, chan, closing>>,
             registered' = registered \/ registered' = [registered EXCEPT ![q] = {}],
             \/ tick[r].pc = "loop" /\ Overdue(tick[r], q) /\ registered[q] = {}
             \/ tick[r].pc = "await" /\ Settled(q, tick[r].waits)
      PROVE  ImagesKept(p)'
  <2>1. CASE q = p
    <3>1. Over(p) /\ Finished(p)
      BY <1>0, <1>2, <2>1, OverdueIsOver, OverIsFinished
    <3>2. images[p] \cup fetching[p] \in {{}, OutputsOf[p]}
      BY <3>1 DEF ImagesKept
    <3>3. fetching[p] = {}
      <4>1. CASE registered[p] = {}
        BY <4>1 DEF ImagesKept
      <4>2. CASE tick[r].pc = "await" /\ Settled(p, tick[r].waits)
        <5>1. fetching[p] \subseteq tick[r].waits
          BY <1>2, <2>1, <4>2 DEF Waits
        <5> QED
          BY <4>2, <5>1 DEF Settled, Spared
      <4> QED
        BY <1>2, <2>1, <4>1, <4>2
    <3>4. Finished(p)'
      BY <1>2, <3>1 DEF Finished, Ended
    <3> QED
      BY <1>2, <2>1, <3>2, <3>3, <3>4, ImagesCompleted
  <2>2. CASE q # p
    <3>1. /\ activity'[p] = activity[p] /\ images'[p] = images[p]
          /\ shown'[p] = shown[p] /\ gallery'[p] = gallery[p]
      BY <1>2, <2>2, CompleteElse
    <3>2. registered'[p] = registered[p]
      BY <1>0, <1>2, <2>2 DEF TypeOK
    <3> QED
      BY <1>0, <1>2, <3>1, <3>2, ImagesUnmoved DEF SameImages
  <2> QED
    BY <2>1, <2>2
<1>3. CASE TickCompletes(r)
  <2>1. PICK q \in Prompts : /\ q = Head(tick[r].todo) /\ tick[r].pc = "loop"
                             /\ Overdue(tick[r], q) /\ registered[q] = {} /\ Complete(q)
    BY <1>3, EntryType DEF TickCompletes, GiveUpNow
  <2> QED
    BY <1>2, <1>3, <2>1 DEF TickCompletes
<1>4. CASE TickAfterFetches(r)
  <2>1. PICK q \in Prompts : /\ q = Head(tick[r].todo) /\ tick[r].pc = "await" /\ Settled(q, tick[r].waits)
                             /\ registered' = [registered EXCEPT ![q] = {}] /\ Complete(q)
    BY <1>4, EntryType DEF TickAfterFetches, GiveUpNow
  <2> QED
    BY <1>2, <1>4, <2>1 DEF TickAfterFetches
<1>5. CASE TickAfterRecovery(r)
  <2>1. PICK q \in Prompts : q = Head(tick[r].todo)
    BY <1>5, EntryType DEF TickAfterRecovery
  <2>2. PICK imgs : Recovered(q, imgs) /\ Finalize(q, imgs)
    BY <1>5, <2>1 DEF TickAfterRecovery
  <2>3. tick[r].pc = "recover" /\ UNCHANGED <<fetching, registered, images, cache, srv, chan, activity, closing>>
    BY <1>5 DEF TickAfterRecovery
  <2>4. CASE q = p
    <3>1. Finished(p)
      BY <1>0, <2>1, <2>3, <2>4, OverdueIsOver, OverIsFinished
    <3> QED
      BY <2>2, <2>3, <2>4, <3>1, ImagesRecovered
  <2>5. CASE q # p
    <3>1. shown'[p] = shown[p] /\ gallery'[p] = gallery[p]
      BY <1>0, <2>2, <2>5 DEF Finalize, TypeOK
    <3> QED
      BY <1>0, <2>3, <3>1, ImagesUnmoved DEF SameImages
  <2> QED
    BY <2>4, <2>5
<1> QED
  BY <1>1, <1>3, <1>4, <1>5 DEF Reconciles

(* The stream breaks, has a gap, or is opened again: nothing of p was on   *)
(* its way.                                                                *)
LEMMA ImagesReopened ==
  ASSUME TypeInv, SparedInv, Disconnect \/ Lag \/ Reconnect, NEW p \in Prompts, ImagesKept(p), Spared(p)'
  PROVE  ImagesKept(p)'
<1> USE DEF server, client, collected, outcome
<1>1. \A i \in 1..Len(chan) : ~About(chan[i], p)
  <2>1. CASE Disconnect \/ Lag
    <3>1. \A e \in Range(chan) : ~About(e, p)
      BY <2>1 DEF Disconnect, Lag, Spared
    <3>2. \A i \in 1..Len(chan) : chan[i] \in Range(chan)
      BY TypeFacts, RangeIsElems DEF TypeInv, Elems
    <3> QED
      BY <3>1, <3>2
  <2>2. CASE Reconnect
    <3>1. chan = <<>>
      BY <2>2 DEF Reconnect, SparedInv
    <3> QED
      BY <3>1
  <2> QED
    BY <2>1, <2>2
<1>2. \A i \in 1..Len(chan') : ~Is(chan'[i], "output", p) /\ ~Is(chan'[i], "done", p)
  <2>1. CASE Disconnect \/ Lag
    BY <2>1 DEF Disconnect, Lag
  <2>2. CASE Reconnect
    <3>1. \A i \in 1..Len(chan') : chan'[i].kind \in {"queued", "preview"}
      BY <2>2, ReconnectEvents
    <3> QED
      BY <3>1 DEF Is
  <2> QED
    BY <2>1, <2>2
<1>3. \A i \in 1..Len(chan) : ~Is(chan[i], "output", p) /\ ~Is(chan[i], "done", p)
  BY <1>1 DEF About, Is
<1>4. srv' = srv /\ SameImages(p)
  BY DEF Disconnect, Lag, Reconnect, SameImages
<1>5. Announced(p) = {} /\ Announced(p)' = {}
  BY <1>2, <1>3 DEF Announced
<1>6. Ended(p)' = Ended(p) /\ Finished(p)' = Finished(p)
  BY <1>2, <1>3, <1>4 DEF Finished, Ended
<1>7. activity'[p] # "reset"
  <2>1. CASE Disconnect \/ Lag
    BY <2>1 DEF Disconnect, Lag, ImagesKept
  <2>2. CASE Reconnect
    BY <2>2 DEF Reconnect, ImagesKept, Spared, Tracked
  <2> QED
    BY <2>1, <2>2
<1> QED
  BY <1>4, <1>5, <1>6, <1>7, ImagesSame

LEMMA NextImages ==
  ASSUME TypeInv, SparedInv, [Next]_vars, NEW p \in Prompts, Spared(p)'
  PROVE  ImagesKept(p)'
<1> USE DEF client, server, stream, view, collected, outcome, bounds
<1>0. /\ Spared(p) /\ EventsInOrder(p) /\ ImagesKept(p) /\ \A r \in Ticks : Waits(tick[r], p)
      /\ TypeOK /\ activity[p] # "reset"
  BY SparedBefore DEF SparedInv, ImagesKept, TypeInv
<1>1. CASE ServerWorks
  BY <1>0, <1>1, ImagesServed DEF ServerWorks
<1>2. ASSUME NEW q \in Prompts, Accept(q) \/ Break(q) PROVE ImagesKept(p)'
  BY <1>0, <1>2, ImagesServed
<1>3. CASE Handles
  BY <1>0, <1>3, ImagesHandled
<1>4. CASE Clear
  <2> DEFINE e == [kind |-> "cleared"]
  <2>1. /\ Emit(<<e>>) /\ srv' = [x \in Prompts |-> IF srv[x] \in {"held", "running"} THEN "gone" ELSE srv[x]]
        /\ missed' = missed \cup {x \in Prompts : srv[x] \in {"held", "running"}}
        /\ UNCHANGED <<cache, client>>
    BY <1>4 DEF Clear
  <2>2. e \in Event /\ ~Is(e, "output", p) /\ ~Is(e, "done", p)
    BY EventTypes DEF Is
  <2> HIDE DEF e
  <2>3. srv'[p] = srv[p]
    BY <2>1 DEF Spared
  <2>4. <<e>> \in Seq(Event) /\ \A j \in 1..Len(<<e>>) : ~Is(<<e>>[j], "output", p) /\ ~Is(<<e>>[j], "done", p)
    BY <2>2
  <2>5. Ended(p)' = Ended(p)
    BY <2>3 DEF Ended
  <2>6. Announced(p)' = Announced(p) /\ Finished(p)' = Finished(p)
    BY <1>0, <2>1, <2>4, <2>5, EmittedElse
  <2> QED
    BY <1>0, <2>1, <2>5, <2>6, ImagesSame DEF SameImages
<1>5. CASE Disconnect \/ Lag \/ Reconnect
  BY <1>0, <1>5, ImagesReopened
<1>5a. CASE Connection
  <2>1. UNCHANGED <<srv, chan, cache, collected, outcome, closing, activity>>
    BY <1>5a DEF Connection, WorkerBreaks, WorkerReturns, OnConnection
  <2> QED
    BY <1>0, <2>1, ImagesUnmoved DEF SameImages
<1>6. ASSUME NEW q \in Prompts, Unshield(q) \/ Age(q) \/ Track(q) \/ PreviewFetched(q) PROVE ImagesKept(p)'
  <2>1. UNCHANGED <<srv, chan, cache, collected, outcome, closing>> /\ activity'[p] # "reset"
    BY <1>0, <1>6 DEF Unshield, Age, Track, PreviewFetched, TypeOK
  <2> QED
    BY <1>0, <2>1, ImagesUnmoved DEF SameImages
<1>7. ASSUME NEW q \in Prompts, NEW o \in Outputs, OutputFetched(q, o) \/ OutputFetchFails(q, o)
      PROVE  ImagesKept(p)'
  <2>1. UNCHANGED <<srv, chan, cache, registered, outcome, closing, activity>>
    BY <1>7 DEF OutputFetched, OutputFetchFails
  <2>2. CASE q = p
    <3>1. OutputFetched(q, o)
      BY <1>7, <2>2 DEF OutputFetchFails, Spared
    <3>2. /\ fetching'[p] = fetching[p] \ {o} /\ images'[p] = images[p] \cup {o} /\ o \in fetching[p]
      BY <1>0, <2>2, <3>1 DEF OutputFetched, TypeOK
    <3>3. images'[p] \cup fetching'[p] = images[p] \cup fetching[p]
      BY <3>2
    <3>4. Announced(p)' = Announced(p) /\ Finished(p)' = Finished(p) /\ Ended(p)' = Ended(p)
      BY <2>1 DEF Announced, Finished, Ended
    <3> QED
      BY <1>0, <2>1, <3>2, <3>3, <3>4 DEF ImagesKept
  <2>3. CASE q # p
    <3>1. fetching'[p] = fetching[p] /\ images'[p] = images[p]
      BY <1>0, <1>7, <2>3 DEF OutputFetched, OutputFetchFails, TypeOK
    <3> QED
      BY <1>0, <2>1, <3>1, ImagesUnmoved DEF SameImages
  <2> QED
    BY <2>2, <2>3
<1>8. ASSUME NEW q \in Prompts, CloseAfterFetches(q) PROVE ImagesKept(p)'
  BY <1>0, <1>8, ImagesClosed
<1>9. ASSUME NEW q \in Prompts, CloseAfterRecovery(q) PROVE ImagesKept(p)'
  <2>1. /\ closing[q].pc = "recover" /\ closing' = [closing EXCEPT ![q] = Resting]
        /\ UNCHANGED <<fetching, registered, images, cache, srv, chan, activity>>
    BY <1>9 DEF CloseAfterRecovery
  <2>2. PICK imgs : Recovered(q, imgs) /\ Finalize(q, imgs)
    BY <1>9 DEF CloseAfterRecovery
  <2>3. CASE q = p
    <3>1. Finished(p)
      BY <1>0, <2>1, <2>3 DEF ImagesKept
    <3>2. closing'[p].pc = "idle"
      BY <1>0, <2>1, <2>3 DEF Resting, TypeOK
    <3> QED
      BY <1>0, <2>1, <2>2, <2>3, <3>1, <3>2, ImagesRecovered
  <2>4. CASE q # p
    <3>1. shown'[p] = shown[p] /\ gallery'[p] = gallery[p] /\ closing'[p] = closing[p]
      BY <1>0, <2>1, <2>2, <2>4 DEF Finalize, TypeOK
    <3> QED
      BY <1>0, <2>1, <3>1, ImagesUnmoved DEF SameImages
  <2> QED
    BY <2>3, <2>4
<1>10. ASSUME NEW r \in Ticks, Reconciles(r) PROVE ImagesKept(p)'
  BY <1>0, <1>10, ImagesReconciled
<1>11. CASE UNCHANGED vars
  BY <1>0, <1>11, ImagesUnmoved DEF vars, SameImages
<1> QED
  BY <1>1, <1>2, <1>3, <1>4, <1>5, <1>5a, <1>6, <1>7, <1>8, <1>9, <1>10, <1>11 DEF Next, Closes

LEMMA InitSpared == Init => SparedInv
<1> SUFFICES ASSUME Init PROVE SparedInv
  OBVIOUS
<1>0. Len(chan) = 0 /\ chan = <<>>
  BY DEF Init
<1>1. ASSUME NEW p \in Prompts PROVE EventsInOrder(p) /\ ImagesKept(p) /\ \A r \in Ticks : Waits(tick[r], p)
  <2>1. srv[p] = "none" /\ ~Ended(p) /\ ~Finished(p)
    BY DEF Init, Ended, Finished
  <2>2. EventsInOrder(p)
    BY <1>0, <2>1 DEF EventsInOrder
  <2>3. Announced(p) = {}
    BY <1>0 DEF Announced
  <2>4. /\ activity[p] = "none" /\ cache[p] = {} /\ fetching[p] = {} /\ images[p] = {}
        /\ shown[p] = 0 /\ closing[p].pc = "idle"
    BY DEF Init, Resting
  <2>5. ImagesKept(p)
    BY <2>1, <2>3, <2>4 DEF ImagesKept
  <2>6. \A r \in Ticks : tick[r].pc = "idle"
    BY DEF Init, Sleeping
  <2> QED
    BY <2>2, <2>5, <2>6 DEF Waits
<1> QED
  BY <1>0, <1>1 DEF SparedInv

(* If a prompt was not interrupted, and no event or image of it was lost   *)
(* or late, what is put on show is all of its output.  Its events reach a  *)
(* browser that tracks it, in their order, so that every image is fetched, *)
(* fetched already or on its way until the last event; the callbacks of    *)
(* the interval leave it alone until then; and whoever takes it waits for  *)
(* what is fetched, or recovers all there is.                              *)
THEOREM ShownInFull == Spec => []AllOutputsShown
<1>1. Init => TypeInv /\ LeftInv /\ SparedInv
  <2> SUFFICES ASSUME Init PROVE TypeInv /\ LeftInv
    BY InitSpared
  <2>1. TypeInv
    BY InitType DEF TypeInv, Busy, Init, Sleeping
  <2> QED
    BY <2>1, InitLeft
<1>2. (TypeInv /\ LeftInv /\ SparedInv) /\ [Next]_vars => (TypeInv /\ LeftInv /\ SparedInv)'
  <2> SUFFICES ASSUME TypeInv, LeftInv, SparedInv, [Next]_vars
               PROVE  TypeInv' /\ LeftInv' /\ SparedInv'
    OBVIOUS
  <2>1. TypeInv' /\ LeftInv'
    BY NextTypeInv, NextLeftInv
  <2>2. ~link.open' => chan' = <<>>
    BY OfflineIsEmpty DEF SparedInv
  <2>3. ASSUME NEW p \in Prompts, Spared(p)'
        PROVE  EventsInOrder(p)' /\ ImagesKept(p)' /\ \A r \in Ticks : Waits(tick[r], p)'
    BY <2>3, NextOrder, NextImages, NextWaits
  <2> QED
    BY <2>1, <2>2, <2>3 DEF SparedInv
<1>3. SparedInv => AllOutputsShown
  BY DEF SparedInv, AllOutputsShown, Spared, ImagesKept
<1> QED
  BY <1>1, <1>2, <1>3, PTL DEF Spec
====
