------------------------- MODULE Tier1DeliveryProofs -------------------------
(***************************************************************************)
(* Proofs about Tier1Delivery, for any banks, requests, threads and bounds *)
(* on what dies.                                                           *)
(*                                                                         *)
(* What a request saw stays true, for answers are never taken back: hence  *)
(* a part that is queued is finished.  The last part is handed to one      *)
(* request, the one whose UPDATE set completed_at (Holds), and a request   *)
(* gives it up as it queues it.                                            *)
(***************************************************************************)
EXTENDS Tier1Delivery, FiniteSetTheorems, TLAPS

-----------------------------------------------------------------------------
(***************************************************************************)
(* The parts of an engagement.                                             *)
(***************************************************************************)

\* The part that only the completion queues.
LastPart == IF instrument = "tier_1" THEN "tier_1" ELSE "aiitsa"

\* What a request can have to do, as a list and as a set.
Todos ==
    IF instrument = "combined"
      THEN {<<>>, <<"tier_1">>, <<"aiitsa">>, <<"tier_1", "aiitsa">>}
      ELSE {<<>>, <<instrument>>}

In(todo) == {todo[i] : i \in DOMAIN todo}

(***************************************************************************)
(* parts_for has one part, or two.                                         *)
(***************************************************************************)
LEMMA PartsAre ==
    ASSUME instrument \in Instruments
    PROVE  /\ Parts = In(PartsFor(instrument))
           /\ instrument = "combined" => Parts = {"tier_1", "aiitsa"}
           /\ instrument # "combined" => Parts = {instrument}
           /\ instrument \in {"tier_1", "aiitsa", "combined"}
           /\ PartsFor(instrument) \in Todos /\ PartsFor(instrument) # <<>>
           /\ LastPart \in Parts
           /\ PartsFor(instrument)[Len(PartsFor(instrument))] = LastPart
<1>1. instrument \in {"tier_1", "aiitsa", "combined"}
  BY InstrumentAssumption DEF Audits
<1>2. CASE instrument = "combined"
  <2>1. PartsFor(instrument) = <<"tier_1", "aiitsa">>
    BY <1>2 DEF PartsFor
  <2> QED
    BY <1>1, <1>2, <2>1 DEF Parts, Todos, LastPart, In
<1>3. CASE instrument # "combined"
  <2>1. PartsFor(instrument) = <<instrument>>
    BY <1>3 DEF PartsFor
  <2> QED
    BY <1>1, <1>3, <2>1 DEF Parts, Todos, LastPart, In
<1> QED
  BY <1>2, <1>3

(***************************************************************************)
(* Taking the first part of a list.                                        *)
(***************************************************************************)
LEMMA TakingAPart ==
    ASSUME instrument \in Instruments, NEW todo \in Todos
    PROVE  /\ In(<<>>) = {}
           /\ In(todo) \subseteq Parts
           /\ todo \in Seq(Parts)
           /\ todo # <<>> =>
                /\ Head(todo) \in In(todo)
                /\ Tail(todo) \in Todos
                /\ In(Tail(todo)) = In(todo) \ {Head(todo)}
<1>1. instrument \in {"tier_1", "aiitsa", "combined"}
      /\ (instrument = "combined" => Parts = {"tier_1", "aiitsa"})
      /\ (instrument # "combined" => Parts = {instrument})
  BY PartsAre
<1>2. In(<<>>) = {}
  BY DEF In
<1>3. CASE todo = <<>>
  BY <1>2, <1>3
<1>4. ASSUME NEW p \in Parts, todo = <<p>>
      PROVE  In(todo) = {p} /\ Head(todo) = p /\ Tail(todo) = <<>> /\ todo \in Seq(Parts)
  BY <1>4 DEF In
<1>5. CASE todo = <<"tier_1", "aiitsa">>
  <2>1. instrument = "combined"
    BY <1>1, <1>5 DEF Todos
  <2>2. In(todo) = {"tier_1", "aiitsa"}
    BY <1>5 DEF In
  <2>3. Head(todo) = "tier_1" /\ Tail(todo) = <<"aiitsa">>
    BY <1>5
  <2>4. In(<<"aiitsa">>) = {"aiitsa"}
    BY DEF In
  <2>5. todo \in Seq(Parts)
    BY <1>1, <1>5, <2>1
  <2>6. todo \in Todos /\ <<"aiitsa">> \in Todos
    BY <2>1 DEF Todos
  <2> QED
    BY <1>1, <1>2, <2>1, <2>2, <2>3, <2>4, <2>5, <2>6
<1>6. CASE todo # <<>> /\ todo # <<"tier_1", "aiitsa">>
  <2>1. PICK p \in Parts : todo = <<p>>
    BY <1>1, <1>6 DEF Todos
  <2>2. <<>> \in Todos
    BY DEF Todos
  <2> QED
    BY <1>2, <1>4, <2>1, <2>2
<1> QED
  BY <1>3, <1>5, <1>6

(***************************************************************************)
(* With everything answered, every part is finished.                       *)
(***************************************************************************)
LEMMA AllIsEveryPart == AllAnswered => \A p \in Parts : Finished(p)
BY DEF AllAnswered, Walk, Finished

(***************************************************************************)
(* Threads that are started are threads there are.                         *)
(***************************************************************************)
LEMMA SomeThreads ==
    ASSUME NEW S, IsFiniteSet(S), NEW n \in {1, 2}, n <= Cardinality(S)
    PROVE  \E new \in SUBSET S : Cardinality(new) = n
<1>1. Cardinality(S) \in Nat /\ S # {}
  BY FS_CardinalityType, FS_EmptySet
<1>2. PICK x \in S : TRUE
  BY <1>1
<1>3. CASE n = 1
  <2>1. Cardinality({x}) = 1
    BY FS_Singleton
  <2> QED
    BY <1>2, <1>3, <2>1
<1>4. CASE n = 2
  <2>1. IsFiniteSet(S \ {x}) /\ Cardinality(S \ {x}) = Cardinality(S) - 1
    BY <1>2, FS_RemoveElement
  <2>2. S \ {x} # {}
    BY <1>1, <1>4, <2>1, FS_EmptySet
  <2>3. PICK y \in S \ {x} : TRUE
    BY <2>2
  <2>4. IsFiniteSet({x}) /\ Cardinality({x}) = 1 /\ y \notin {x}
    BY <2>3, FS_Singleton
  <2>5. Cardinality({x} \cup {y}) = 2
    BY <2>4, FS_AddElement
  <2> QED
    BY <1>2, <1>4, <2>3, <2>5
<1> QED
  BY <1>3, <1>4

\* Only threads that exist are started, and no more than there are.
LEMMA ThreadsThereAre ==
    ASSUME started \subseteq Workers, NEW n \in {1, 2}, StartThreads(n)
    PROVE  started' \subseteq Workers
<1> DEFINE S == Workers \ started
<1>1. IsFiniteSet(S)
  <2>1. S \subseteq Workers /\ IsFiniteSet(Workers)
    BY BoundsAssumption
  <2> QED
    BY <2>1, FS_Subset
<1>3. n <= Cardinality(S)
  BY DEF StartThreads
<1>2. \E new \in SUBSET S : Cardinality(new) = n
  BY <1>1, <1>3, SomeThreads
<1> QED
  BY <1>2 DEF StartThreads

-----------------------------------------------------------------------------
(***************************************************************************)
(* The invariant.                                                          *)
(***************************************************************************)

HasParts(r) == requests[r].pc \in {"starting", "queueing", "spawning"}

\* A request that is to queue the last part, and has not.
Holds(r) ==
    /\ LastPart \in In(requests[r].todo)
    /\ ~ (requests[r].pc = "spawning" /\ Head(requests[r].todo) = LastPart)

RequestsAreInOrder ==
    \A r \in Requests :
      /\ requests[r].todo \in Todos
      /\ requests[r].todo # <<>> <=> HasParts(r)
      /\ requests[r].pc = "one_part" => instrument = "combined"
      /\ requests[r].pc \in {"admitted", "saved"} => requests[r].question \in Walk

\* What a request is about to queue is finished, and who found nothing more was right.
RequestsSawTheTruth ==
    \A r \in Requests :
      /\ requests[r].pc = "no_more" => AllAnswered
      /\ \A p \in In(requests[r].todo) : Finished(p)

OneHolder ==
    /\ ~ completed =>
         queued[LastPart] = 0 /\ \A r \in Requests : LastPart \notin In(requests[r].todo)
    /\ \A r, s \in Requests :
         LastPart \in In(requests[r].todo) /\ LastPart \in In(requests[s].todo) => r = s
    /\ \A r \in Requests : Holds(r) => queued[LastPart] = 0
    /\ queued[LastPart] <= 1

IInv ==
    /\ TypeOK
    /\ RequestsAreInOrder
    /\ RequestsSawTheTruth
    /\ QueuedPartsAreFinished
    /\ OneHolder

(***************************************************************************)
(* The parts of the invariant that speak of one request speak of the       *)
(* others only through the tables.                                         *)
(***************************************************************************)
InOrder(request) ==
    /\ request \in [pc : RequestSteps, question : Walk \cup {NoQuestion}, todo : Seq(Parts)]
    /\ request.todo \in Todos
    /\ request.todo # <<>> <=> request.pc \in {"starting", "queueing", "spawning"}
    /\ request.pc = "one_part" => instrument = "combined"
    /\ request.pc \in {"admitted", "saved"} => request.question \in Walk
    /\ request.pc = "no_more" => AllAnswered
    /\ \A p \in In(request.todo) : Finished(p)

\* One request moves, and the tables stay.
LEMMA RequestMoves ==
    ASSUME IInv, NEW r \in Requests, NEW request,
           requests' = [requests EXCEPT ![r] = request],
           InOrder(request),
           UNCHANGED <<instrument, answered, queued>>,
           completed' \in BOOLEAN, completed => completed',
           completed' => AllAnswered,
           started' \subseteq Workers, deaths' \in 0..MaxDeaths[instrument],
           LastPart \in In(request.todo) =>
             \/ completed' /\ ~completed
             \/ /\ LastPart \in In(requests[r].todo)
                /\ \/ request.pc = "spawning" /\ Head(request.todo) = LastPart
                   \/ Holds(r)
    PROVE  IInv'
<1>1. /\ Parts' = Parts /\ Walk' = Walk /\ Todos' = Todos /\ LastPart' = LastPart
      /\ AllAnswered' = AllAnswered /\ \A p : Finished(p)' = Finished(p)
  BY DEF Parts, Walk, Todos, LastPart, AllAnswered, Finished
<1>2. \A s \in Requests : requests'[s] = IF s = r THEN request ELSE requests[s]
  BY DEF IInv, TypeOK
<1>3. TypeOK'
  BY <1>1, <1>2 DEF IInv, TypeOK, InOrder
<1>4. RequestsAreInOrder'
  BY <1>1, <1>2 DEF IInv, RequestsAreInOrder, HasParts, InOrder
<1>5. RequestsSawTheTruth'
  BY <1>1, <1>2 DEF IInv, RequestsSawTheTruth, InOrder
<1>6. QueuedPartsAreFinished'
  BY <1>1 DEF IInv, QueuedPartsAreFinished
<1>7. OneHolder'
  BY <1>1, <1>2 DEF IInv, OneHolder, Holds
<1> QED
  BY <1>3, <1>4, <1>5, <1>6, <1>7 DEF IInv

\* What the three ways to move a request make of it.
At(r, step) ==
    [pc |-> step, question |-> requests[r].question, todo |-> requests[r].todo]

Passed(r, step) ==
    [pc |-> step, question |-> NoQuestion, todo |-> requests[r].todo]

Going(parts) ==
    IF parts = <<>> THEN Idle
      ELSE [pc |-> "starting", question |-> NoQuestion, todo |-> parts]

\* The three ways a request moves on, as assignments.
LEMMA MovesAre ==
    ASSUME TypeOK, NEW r \in Requests, NEW step
    PROVE  /\ GoTo(r, step) => requests' = [requests EXCEPT ![r] = At(r, step)]
           /\ PassTo(r, step) => requests' = [requests EXCEPT ![r] = Passed(r, step)]
           /\ \A parts : GoOn(r, parts) =>
                requests' = [requests EXCEPT ![r] = Going(parts)]
<1>1. requests \in [Requests -> [pc : RequestSteps, question : Walk \cup {NoQuestion},
                                todo : Seq(Parts)]]
  BY DEF TypeOK
<1>2. requests[r] = [pc |-> requests[r].pc, question |-> requests[r].question,
                     todo |-> requests[r].todo]
  BY <1>1
<1> QED
  BY <1>1, <1>2 DEF GoTo, PassTo, GoOn, At, Passed, Going

\* A request with nothing more to do, or with parts that are finished.
LEMMA GoingInOrder ==
    ASSUME IInv, NEW parts \in Todos, \A p \in In(parts) : Finished(p)
    PROVE  InOrder(Going(parts)) /\ Going(parts).todo = parts
<1>1. parts \in Seq(Parts) /\ <<>> \in Todos /\ <<>> \in Seq(Parts)
  BY TakingAPart DEF IInv, TypeOK, Todos
<1> QED
  BY <1>1 DEF Going, Idle, InOrder, RequestSteps

\* The two fields Submit sets are the request it makes.
LEMMA AdmittedIs ==
    ASSUME TypeOK, NEW r \in Requests, NEW q
    PROVE  [requests EXCEPT ![r].pc = "admitted", ![r].question = q] =
           [requests EXCEPT ![r] = [pc |-> "admitted", question |-> q,
                                    todo |-> requests[r].todo]]
<1>1. requests \in [Requests -> [pc : RequestSteps, question : Walk \cup {NoQuestion},
                                todo : Seq(Parts)]]
  BY DEF TypeOK
<1>2. requests[r] = [pc |-> requests[r].pc, question |-> requests[r].question,
                     todo |-> requests[r].todo]
  BY <1>1
<1> DEFINE after == [requests EXCEPT ![r].pc = "admitted", ![r].question = q]
<1>3. after[r] = [requests[r] EXCEPT !.pc = "admitted", !.question = q]
  BY <1>1
<1>4. after[r] = [pc |-> "admitted", question |-> q, todo |-> requests[r].todo]
  BY <1>2, <1>3
<1>5. after = [s \in Requests |-> after[s]] /\ \A s \in Requests : s # r => after[s] = requests[s]
  BY <1>1
<1> QED
  BY <1>1, <1>4, <1>5

\* A submit that is refused or admitted.
LEMMA SubmitIInv == ASSUME IInv, NEW r \in Requests, Submit(r) PROVE IInv'
<1>1. PICK q \in Walk :
        requests' = [requests EXCEPT ![r].pc = "admitted", ![r].question = q]
  BY DEF Submit
<1> DEFINE request == [pc |-> "admitted", question |-> q, todo |-> requests[r].todo]
<1>2. requests' = [requests EXCEPT ![r] = request]
  BY <1>1, AdmittedIs DEF IInv
<1>3. requests[r].todo = <<>> /\ <<>> \in Todos /\ In(<<>>) = {} /\ <<>> \in Seq(Parts)
  BY TakingAPart DEF Submit, IInv, TypeOK, RequestsAreInOrder, HasParts, Todos
<1>4. InOrder(request)
  BY <1>3 DEF InOrder, RequestSteps
<1> QED
  BY <1>2, <1>3, <1>4, RequestMoves DEF Submit, IInv, TypeOK, QueuedPartsAreFinished

\* Whoever finds no next question saw every part finished, and a saved answer stays.
LEMMA NextQuestionIInv == ASSUME IInv, NEW r \in Requests, NextQuestion(r) PROVE IInv'
<1>1. requests[r].todo = <<>> /\ requests[r].question \in Walk
  BY DEF NextQuestion, IInv, RequestsAreInOrder, HasParts
<1>2. <<>> \in Todos /\ In(<<>>) = {} /\ <<>> \in Seq(Parts)
  BY TakingAPart DEF IInv, TypeOK, Todos
<1>3. PICK request : /\ requests' = [requests EXCEPT ![r] = request]
                     /\ request.todo = <<>> /\ InOrder(request)
  <2>1. CASE AllAnswered
    <3>1. InOrder(Passed(r, "no_more")) /\ Passed(r, "no_more").todo = <<>>
      BY <1>1, <1>2, <2>1 DEF Passed, InOrder, RequestSteps
    <3> QED
      BY <2>1, <3>1, MovesAre DEF NextQuestion, IInv
  <2>2. CASE /\ ~ AllAnswered /\ instrument = "combined"
             /\ requests[r].question \in Bank[instrument]["tier_1"]
    <3>1. InOrder(Passed(r, "one_part")) /\ Passed(r, "one_part").todo = <<>>
      BY <1>1, <1>2, <2>2 DEF Passed, InOrder, RequestSteps
    <3> QED
      BY <2>2, <3>1, MovesAre DEF NextQuestion, IInv
  <2>3. CASE /\ ~ AllAnswered
             /\ ~ (/\ instrument = "combined"
                   /\ requests[r].question \in Bank[instrument]["tier_1"])
    <3>1. GoOn(r, <<>>)
      BY <2>3 DEF NextQuestion
    <3> QED
      BY <1>2, <3>1, MovesAre, GoingInOrder DEF IInv
  <2> QED
    BY <2>1, <2>2, <2>3
<1> QED
  BY <1>2, <1>3, RequestMoves DEF NextQuestion, IInv, TypeOK, QueuedPartsAreFinished

\* A part is taken up by who saw it finished and not queued.
LEMMA MaybeDeliverPartIInv ==
    ASSUME IInv, NEW r \in Requests, MaybeDeliverPart(r) PROVE IInv'
<1> DEFINE parts == IF Finished("tier_1") THEN <<"tier_1">> ELSE <<>>
<1>1. instrument = "combined"
  BY DEF MaybeDeliverPart, IInv, RequestsAreInOrder
<1>2. parts \in Todos /\ In(<<"tier_1">>) = {"tier_1"} /\ In(<<>>) = {}
  BY <1>1 DEF Todos, In
<1>3. InOrder(Going(parts)) /\ Going(parts).todo = parts
  BY <1>2, GoingInOrder
<1>4. requests' = [requests EXCEPT ![r] = Going(parts)]
  BY MovesAre DEF MaybeDeliverPart, IInv
<1>5. LastPart \notin In(Going(parts).todo)
  BY <1>1, <1>2, <1>3 DEF LastPart
<1> QED
  BY <1>3, <1>4, <1>5, RequestMoves
     DEF MaybeDeliverPart, IInv, TypeOK, QueuedPartsAreFinished

\* The stamp is set once, and who sets it holds what is left to queue.
LEMMA MarkCompleteIInv == ASSUME IInv, NEW r \in Requests, MarkComplete(r) PROVE IInv'
<1> DEFINE parts == IF completed THEN <<>> ELSE PartsFor(instrument)
<1>1. AllAnswered
  BY DEF MarkComplete, IInv, RequestsSawTheTruth
<1>2. parts \in Todos /\ \A p \in In(parts) : Finished(p)
  <2>1. <<>> \in Todos /\ In(<<>>) = {}
    BY DEF Todos, In
  <2> QED
    BY <1>1, <2>1, PartsAre, AllIsEveryPart DEF IInv, TypeOK
<1>3. InOrder(Going(parts)) /\ Going(parts).todo = parts
  BY <1>2, GoingInOrder
<1>4. requests' = [requests EXCEPT ![r] = Going(parts)]
  BY MovesAre DEF MarkComplete, IInv
<1>5. LastPart \in In(Going(parts).todo) => ~ completed
  BY <1>3 DEF In
<1> QED
  BY <1>1, <1>3, <1>4, <1>5, RequestMoves DEF MarkComplete, IInv, TypeOK

\* A list whose first part is done with.
LEMMA RestInOrder ==
    ASSUME IInv, NEW r \in Requests, HasParts(r)
    PROVE  LET rest == Tail(requests[r].todo)
           IN  /\ InOrder(Going(rest)) /\ Going(rest).todo = rest
               /\ In(rest) = In(requests[r].todo) \ {Head(requests[r].todo)}
               /\ Head(requests[r].todo) \in In(requests[r].todo)
               /\ Head(requests[r].todo) \in Parts
<1>1. requests[r].todo \in Todos /\ requests[r].todo # <<>>
      /\ \A p \in In(requests[r].todo) : Finished(p)
  BY DEF IInv, RequestsAreInOrder, RequestsSawTheTruth
<1>2. instrument \in Instruments
  BY DEF IInv, TypeOK
<1>3. /\ Tail(requests[r].todo) \in Todos
      /\ In(Tail(requests[r].todo)) = In(requests[r].todo) \ {Head(requests[r].todo)}
      /\ Head(requests[r].todo) \in In(requests[r].todo)
      /\ In(requests[r].todo) \subseteq Parts
  BY <1>1, <1>2, TakingAPart
<1> QED
  BY <1>1, <1>3, GoingInOrder

\* A part found queued is dropped from the list, and the rest is still in order.
LEMMA PartQueuedIInv == ASSUME IInv, NEW r \in Requests, PartQueued(r) PROVE IInv'
<1>1. HasParts(r) /\ requests[r].pc = "starting"
  BY DEF PartQueued, HasParts
<1>2. CASE queued[Head(requests[r].todo)] > 0
  <2> DEFINE rest == Tail(requests[r].todo)
  <2>1. requests' = [requests EXCEPT ![r] = Going(rest)]
    BY <1>2, MovesAre DEF PartQueued, IInv
  <2>2. LastPart \in In(rest) => LastPart \in In(requests[r].todo) /\ Holds(r)
    BY <1>1, RestInOrder DEF Holds
  <2> QED
    BY <1>1, <2>1, <2>2, RestInOrder, RequestMoves
       DEF PartQueued, IInv, TypeOK, QueuedPartsAreFinished
<1>3. CASE ~ (queued[Head(requests[r].todo)] > 0)
  <2>1. requests' = [requests EXCEPT ![r] = At(r, "queueing")]
    BY <1>3, MovesAre DEF PartQueued, IInv
  <2>2. InOrder(At(r, "queueing"))
    BY <1>1 DEF At, InOrder, IInv, TypeOK, RequestsAreInOrder, RequestsSawTheTruth,
                HasParts, RequestSteps
  <2>3. At(r, "queueing").todo = requests[r].todo
        /\ (LastPart \in In(requests[r].todo) => Holds(r))
    BY <1>1 DEF At, Holds
  <2> QED
    BY <2>1, <2>2, <2>3, RequestMoves
       DEF PartQueued, IInv, TypeOK, QueuedPartsAreFinished
<1> QED
  BY <1>2, <1>3

\* The thread starts after the event, and the request goes on with the rest.
LEMMA SpawnThreadIInv == ASSUME IInv, NEW r \in Requests, SpawnThread(r) PROVE IInv'
<1>1. HasParts(r) /\ requests[r].pc = "spawning"
  BY DEF SpawnThread, HasParts
<1> DEFINE rest == Tail(requests[r].todo)
<1>2. requests' = [requests EXCEPT ![r] = Going(rest)]
  BY MovesAre DEF SpawnThread, IInv
<1>3. started' \subseteq Workers
  BY ThreadsThereAre DEF SpawnThread, IInv, TypeOK
<1>4. LastPart \in In(rest) => LastPart \in In(requests[r].todo) /\ Holds(r)
  BY <1>1, RestInOrder DEF Holds
<1> QED
  BY <1>1, <1>2, <1>3, <1>4, RestInOrder, RequestMoves
     DEF SpawnThread, IInv, TypeOK, QueuedPartsAreFinished

\* A request that dies leaves its list, and what it queued, behind.
LEMMA DieIInv == ASSUME IInv, NEW r \in Requests, Die(r) PROVE IInv'
<1>1. <<>> \in Todos /\ In(<<>>) = {}
  BY DEF Todos, In
<1>2. requests' = [requests EXCEPT ![r] = Going(<<>>)]
  BY MovesAre DEF Die, IInv
<1>3. InOrder(Going(<<>>)) /\ Going(<<>>).todo = <<>>
  BY <1>1, GoingInOrder
<1>4. deaths' \in 0..MaxDeaths[instrument]
  BY BoundsAssumption DEF Die, IInv, TypeOK
<1> QED
  BY <1>1, <1>2, <1>3, <1>4, RequestMoves DEF Die, IInv, TypeOK, QueuedPartsAreFinished

(***************************************************************************)
(* An answer is saved: what was finished is, and more may be.              *)
(***************************************************************************)
LEMMA SaveIInv == ASSUME IInv, NEW r \in Requests, Save(r) PROVE IInv'
<1> DEFINE request == At(r, "saved")
<1>1. requests' = [requests EXCEPT ![r] = request]
  BY MovesAre DEF Save, IInv
<1>2. /\ requests[r].pc = "admitted" /\ requests[r].question \in Walk
      /\ requests[r].todo = <<>>
  BY DEF Save, IInv, RequestsAreInOrder, HasParts
<1>3. /\ Parts' = Parts /\ Walk' = Walk /\ Todos' = Todos /\ LastPart' = LastPart
      /\ UNCHANGED <<instrument, completed, queued, started, deaths>>
  BY DEF Save, Parts, Walk, Todos, LastPart
<1>4. answered' = answered \cup {requests[r].question}
  BY DEF Save
<1>5. (AllAnswered => AllAnswered') /\ \A p : Finished(p) => Finished(p)'
  BY <1>3, <1>4 DEF AllAnswered, Finished
<1>6. \A s \in Requests : requests'[s] = IF s = r THEN request ELSE requests[s]
  BY <1>1 DEF IInv, TypeOK
<1>7. /\ request \in [pc : RequestSteps, question : Walk \cup {NoQuestion}, todo : Seq(Parts)]
      /\ request.todo = <<>> /\ request.pc = "saved" /\ request.question \in Walk
      /\ In(<<>>) = {} /\ <<>> \in Todos
  BY <1>2, TakingAPart DEF At, IInv, TypeOK, RequestSteps, Todos
<1>8. TypeOK'
  BY <1>1, <1>2, <1>3, <1>4, <1>7 DEF IInv, TypeOK
<1>9. RequestsAreInOrder'
  BY <1>3, <1>6, <1>7 DEF IInv, RequestsAreInOrder, HasParts
<1>10. RequestsSawTheTruth'
  BY <1>3, <1>5, <1>6, <1>7 DEF IInv, RequestsSawTheTruth
<1>11. QueuedPartsAreFinished'
  BY <1>3, <1>5 DEF IInv, QueuedPartsAreFinished
<1>12. OneHolder'
  BY <1>3, <1>6, <1>7 DEF IInv, OneHolder, Holds
<1> QED
  BY <1>8, <1>9, <1>10, <1>11, <1>12 DEF IInv

(***************************************************************************)
(* A part is queued; who queues the last one does not hold it any more.    *)
(***************************************************************************)
LEMMA QueuePartIInv == ASSUME IInv, NEW r \in Requests, QueuePart(r) PROVE IInv'
<1> DEFINE part == Head(requests[r].todo)
           request == At(r, "spawning")
<1>1. requests' = [requests EXCEPT ![r] = request]
  BY MovesAre DEF QueuePart, IInv
<1>2. HasParts(r) /\ requests[r].pc = "queueing"
  BY DEF QueuePart, HasParts
<1>3. part \in In(requests[r].todo) /\ part \in Parts
  BY <1>2, RestInOrder
<1>4. /\ Parts' = Parts /\ Walk' = Walk /\ Todos' = Todos /\ LastPart' = LastPart
      /\ AllAnswered' = AllAnswered /\ \A p : Finished(p)' = Finished(p)
      /\ UNCHANGED <<instrument, answered, completed, started, deaths>>
  BY DEF QueuePart, Parts, Walk, Todos, LastPart, AllAnswered, Finished
<1>5. \A s \in Requests : requests'[s] = IF s = r THEN request ELSE requests[s]
  BY <1>1 DEF IInv, TypeOK
<1>6. \A p \in Parts : queued'[p] = IF p = part THEN queued[p] + 1 ELSE queued[p]
  BY DEF QueuePart, IInv, TypeOK
<1>7. /\ request \in [pc : RequestSteps, question : Walk \cup {NoQuestion}, todo : Seq(Parts)]
      /\ request.todo = requests[r].todo /\ request.pc = "spawning"
  BY DEF At, IInv, TypeOK, RequestSteps
<1>8. LastPart \in Parts /\ \A p \in Parts : queued[p] \in Nat
  BY PartsAre DEF IInv, TypeOK
<1>9. TypeOK'
  <2>1. queued' \in [Parts -> Nat]
    BY <1>3 DEF QueuePart, IInv, TypeOK
  <2> QED
    BY <1>1, <1>4, <1>7, <2>1 DEF IInv, TypeOK
<1>10. RequestsAreInOrder'
  BY <1>2, <1>4, <1>5, <1>7 DEF IInv, RequestsAreInOrder, HasParts
<1>11. RequestsSawTheTruth'
  BY <1>4, <1>5, <1>7 DEF IInv, RequestsSawTheTruth
<1>12. QueuedPartsAreFinished'
  BY <1>3, <1>4, <1>6 DEF IInv, QueuedPartsAreFinished, RequestsSawTheTruth
<1>13. OneHolder'
  <2>1. CASE part = LastPart
    <3>1. Holds(r) /\ queued[LastPart] = 0 /\ completed
      BY <1>2, <1>3, <2>1 DEF IInv, OneHolder, Holds
    <3>2. queued'[LastPart] = 1
      BY <1>6, <1>8, <2>1, <3>1
    <3>3. \A s \in Requests : ~ Holds(s)'
      BY <1>3, <1>4, <1>5, <1>7, <2>1 DEF IInv, OneHolder, Holds
    <3> QED
      BY <1>4, <1>5, <1>7, <3>1, <3>2, <3>3 DEF IInv, OneHolder
  <2>2. CASE part # LastPart
    <3>1. queued'[LastPart] = queued[LastPart]
      BY <1>6, <1>8, <2>2
    <3>2. \A s \in Requests : Holds(s)' => Holds(s)
      BY <1>2, <1>4, <1>5, <1>7 DEF Holds
    <3> QED
      BY <1>4, <1>5, <1>7, <3>1, <3>2 DEF IInv, OneHolder
  <2> QED
    BY <2>1, <2>2
<1> QED
  BY <1>9, <1>10, <1>11, <1>12, <1>13 DEF IInv

(***************************************************************************)
(* The threads, the sweeps and the button leave the requests alone.        *)
(***************************************************************************)
LEMMA AsideIInv ==
    ASSUME IInv, started' \subseteq Workers,
           UNCHANGED <<instrument, answered, completed, queued, requests, deaths>>
    PROVE  IInv'
<1>1. /\ Parts' = Parts /\ Walk' = Walk /\ Todos' = Todos /\ LastPart' = LastPart
      /\ AllAnswered' = AllAnswered /\ \A p : Finished(p)' = Finished(p)
  BY DEF Parts, Walk, Todos, LastPart, AllAnswered, Finished
<1>2. TypeOK'
  BY <1>1 DEF IInv, TypeOK
<1>3. RequestsAreInOrder' /\ RequestsSawTheTruth'
  BY <1>1 DEF IInv, RequestsAreInOrder, RequestsSawTheTruth, HasParts
<1>4. QueuedPartsAreFinished' /\ OneHolder'
  BY <1>1 DEF IInv, QueuedPartsAreFinished, OneHolder, Holds
<1> QED
  BY <1>2, <1>3, <1>4 DEF IInv

\* An edit that starts the report again touches no request.
LEMMA RegenerateIInv == IInv /\ Regenerate => IInv'
<1> SUFFICES ASSUME IInv, Regenerate
             PROVE  IInv'
  OBVIOUS
<1>1. Cardinality(Parts) \in {1, 2}
  <2>1. CASE instrument = "combined"
    <3>1. IsFiniteSet({"tier_1"}) /\ Cardinality({"tier_1"}) = 1 /\ "aiitsa" \notin {"tier_1"}
      BY FS_Singleton
    <3>2. Cardinality({"tier_1"} \cup {"aiitsa"}) = 2
      BY <3>1, FS_AddElement
    <3>3. Parts = {"tier_1"} \cup {"aiitsa"}
      BY <2>1, PartsAre DEF IInv, TypeOK
    <3> QED
      BY <3>2, <3>3
  <2>2. CASE instrument # "combined"
    BY <2>2, PartsAre, FS_Singleton DEF IInv, TypeOK
  <2> QED
    BY <2>1, <2>2
<1>2. started' \subseteq Workers
  BY <1>1, ThreadsThereAre DEF Regenerate, IInv, TypeOK
<1> QED
  BY <1>2, AsideIInv DEF Regenerate

\* At the start nothing is queued and every request is idle.
LEMMA InitIInv == Init => IInv
<1> SUFFICES ASSUME Init
             PROVE  IInv
  OBVIOUS
<1>1. instrument \in Instruments /\ <<>> \in Todos /\ In(<<>>) = {} /\ <<>> \in Seq(Parts)
  BY TakingAPart DEF Init, Todos
<1>2. LastPart \in Parts
  BY <1>1, PartsAre
<1>3. Idle \in [pc : RequestSteps, question : Walk \cup {NoQuestion}, todo : Seq(Parts)]
  BY <1>1 DEF Idle, RequestSteps
<1>4. 0 \in 0..MaxDeaths[instrument]
  BY <1>1, BoundsAssumption
<1>5. TypeOK
  BY <1>1, <1>3, <1>4 DEF Init, TypeOK
<1>6. \A r \in Requests : requests[r] = Idle
  BY DEF Init
<1>7. RequestsAreInOrder /\ RequestsSawTheTruth
  BY <1>1, <1>6 DEF RequestsAreInOrder, RequestsSawTheTruth, HasParts, Idle
<1>8. QueuedPartsAreFinished /\ OneHolder
  BY <1>1, <1>2, <1>6 DEF Init, QueuedPartsAreFinished, OneHolder, Holds, Idle
<1> QED
  BY <1>5, <1>7, <1>8 DEF IInv

\* Every step, action by action.
LEMMA NextIInv == IInv /\ [Next]_vars => IInv'
<1> SUFFICES ASSUME IInv, [Next]_vars
             PROVE  IInv'
  OBVIOUS
<1>1. CASE UNCHANGED vars
  BY <1>1, AsideIInv DEF vars, delivery, IInv, TypeOK
<1>2. ASSUME NEW r \in Requests, Submit(r) \/ RequestStep(r) \/ Die(r)
      PROVE  IInv'
  BY <1>2, SubmitIInv, SaveIInv, NextQuestionIInv, MaybeDeliverPartIInv, MarkCompleteIInv,
     PartQueuedIInv, QueuePartIInv, SpawnThreadIInv, DieIInv DEF RequestStep
<1>3. CASE Regenerate
  BY <1>3, RegenerateIInv
<1>4. CASE Background
  BY <1>4, AsideIInv DEF Background, delivery, IInv, TypeOK
<1> QED
  BY <1>1, <1>2, <1>3, <1>4 DEF Next

(***************************************************************************)
(* The invariant holds in every state of every behaviour.                  *)
(***************************************************************************)
THEOREM Invariance == Spec => []IInv
<1> QED
  BY InitIInv, NextIInv, PTL DEF Spec

(***************************************************************************)
(* Requests, threads and events keep their types.                          *)
(***************************************************************************)
THEOREM TypesAreKept == Spec => []TypeOK
<1>1. IInv => TypeOK
  BY DEF IInv
<1> QED
  BY <1>1, Invariance, PTL

(***************************************************************************)
(* Nothing is queued that is not answered, however many requests save,     *)
(* look and claim at once, and wherever one of them dies.                  *)
(***************************************************************************)
THEOREM QueuedIsFinished == Spec => []QueuedPartsAreFinished
<1>1. IInv => QueuedPartsAreFinished
  BY DEF IInv
<1> QED
  BY <1>1, Invariance, PTL

(***************************************************************************)
(* The completion is delivered once: one request holds the last part.      *)
(***************************************************************************)
THEOREM LastPartQueuedOnce == Spec => []LastPartIsQueuedOnce
<1>1. IInv => LastPartIsQueuedOnce
  BY PartsAre DEF IInv, TypeOK, OneHolder, LastPartIsQueuedOnce
<1> QED
  BY <1>1, Invariance, PTL

-----------------------------------------------------------------------------
(***************************************************************************)
(* The refinement of ReportGeneration.  An edit is a request that the view *)
(* has admitted and that has not saved.                                    *)
(***************************************************************************)
Edits == {r \in Requests : requests[r].pc = "admitted"}

\* A step that leaves the generation and the admitted requests alone.
LEMMA StutterRefines ==
    ASSUME UNCHANGED generation, Edits' = Edits PROVE UNCHANGED Gen!vars
BY DEF generation, engagement, Edits, Gen!vars, Gen!engagement

\* One request moves on from any step but "admitted", to any but that.
LEMMA OtherRequestStep ==
    ASSUME IInv, NEW r \in Requests, requests[r].pc # "admitted",
           NEW request, request.pc # "admitted",
           requests' = [requests EXCEPT ![r] = request], UNCHANGED generation
    PROVE  UNCHANGED Gen!vars
<1>1. \A s \in Requests : requests'[s] = IF s = r THEN request ELSE requests[s]
  BY DEF IInv, TypeOK
<1>2. Edits' = Edits
  BY <1>1 DEF Edits
<1> QED
  BY <1>2, StutterRefines

(***************************************************************************)
(* Submit admits an edit, Save saves it, and a request that dies before it *)
(* has saved drops it.                                                     *)
(***************************************************************************)
LEMMA RequestRefines ==
    ASSUME IInv, NEW r \in Requests, Submit(r) \/ RequestStep(r) \/ Die(r)
    PROVE  [Gen!Next]_(Gen!vars)
<1> DEFINE Moves(request) == requests' = [requests EXCEPT ![r] = request]
<1>1. \A request : Moves(request) =>
        \A s \in Requests : requests'[s] = IF s = r THEN request ELSE requests[s]
  BY DEF IInv, TypeOK
<1>2. CASE Submit(r)
  <2>1. PICK q \in Walk :
          requests' = [requests EXCEPT ![r].pc = "admitted", ![r].question = q]
    BY <1>2 DEF Submit
  <2>2. Moves([pc |-> "admitted", question |-> q, todo |-> requests[r].todo])
    BY <2>1, AdmittedIs DEF IInv
  <2>3. r \notin Edits /\ Edits' = Edits \cup {r}
    <3>1. \A s \in Requests : requests'[s].pc = IF s = r THEN "admitted" ELSE requests[s].pc
      BY <2>2 DEF IInv, TypeOK
    <3>2. requests[r].pc = "idle"
      BY <1>2 DEF Submit
    <3> QED
      BY <3>1, <3>2 DEF Edits
  <2>4. Gen!AdmitEdit(r)
    BY <1>2, <2>3 DEF Submit, Edits, generation, engagement, Gen!AdmitEdit, Gen!engagement
  <2> QED
    BY <2>4 DEF Gen!Next
<1>3. CASE Save(r)
  <2>1. Moves(At(r, "saved"))
    BY <1>3, MovesAre DEF Save, IInv
  <2>2. r \in Edits /\ Edits' = Edits \ {r}
    <3>1. \A s \in Requests : requests'[s].pc = IF s = r THEN "saved" ELSE requests[s].pc
      BY <2>1 DEF IInv, TypeOK, At
    <3>2. requests[r].pc = "admitted"
      BY <1>3 DEF Save
    <3> QED
      BY <3>1, <3>2 DEF Edits
  <2>3. Gen!SaveAnswer(r)
    BY <1>3, <2>2 DEF Save, Edits, engagement, Gen!SaveAnswer, Gen!engagement
  <2> QED
    BY <2>3 DEF Gen!Next
<1>4. CASE Die(r)
  <2>1. Moves(Idle) /\ Idle.pc = "idle" /\ UNCHANGED generation
    BY <1>4 DEF Die, GoOn, Idle
  <2>2. CASE requests[r].pc = "admitted"
    <3>1. r \in Edits /\ Edits' = Edits \ {r}
      BY <1>1, <2>1, <2>2 DEF Edits
    <3>2. Gen!DropEdit(r)
      BY <2>1, <3>1 DEF Edits, generation, engagement, Gen!DropEdit, Gen!engagement
    <3> QED
      BY <3>2 DEF Gen!Next
  <2>3. CASE requests[r].pc # "admitted"
    BY <2>1, <2>3, OtherRequestStep
  <2> QED
    BY <2>2, <2>3
<1>5. CASE \/ NextQuestion(r) \/ MaybeDeliverPart(r) \/ MarkComplete(r)
           \/ PartQueued(r) \/ QueuePart(r) \/ SpawnThread(r)
  <2>1. requests[r].pc # "admitted" /\ UNCHANGED generation
    BY <1>5 DEF NextQuestion, MaybeDeliverPart, MarkComplete, PartQueued, QueuePart,
                SpawnThread
  <2>2. \E request : Moves(request) /\ request.pc # "admitted"
    <3>1. \A parts : Going(parts).pc # "admitted"
      BY DEF Going, Idle
    <3>2. \A step : At(r, step).pc = step /\ Passed(r, step).pc = step
      BY DEF At, Passed
    <3>3. CASE NextQuestion(r)
      BY <3>1, <3>2, <3>3, MovesAre DEF NextQuestion, IInv
    <3>4. CASE MaybeDeliverPart(r)
      BY <3>1, <3>4, MovesAre DEF MaybeDeliverPart, IInv
    <3>5. CASE MarkComplete(r)
      BY <3>1, <3>5, MovesAre DEF MarkComplete, IInv
    <3>6. CASE PartQueued(r)
      BY <3>1, <3>2, <3>6, MovesAre DEF PartQueued, IInv
    <3>7. CASE QueuePart(r)
      BY <3>2, <3>7, MovesAre DEF QueuePart, IInv
    <3>8. CASE SpawnThread(r)
      BY <3>1, <3>8, MovesAre DEF SpawnThread, IInv
    <3> QED
      BY <1>5, <3>3, <3>4, <3>5, <3>6, <3>7, <3>8
  <2> QED
    BY <2>1, <2>2, OtherRequestStep
<1> QED
  BY <1>2, <1>3, <1>4, <1>5 DEF RequestStep

(***************************************************************************)
(* The button starts threads, which ReportGeneration has always had; a     *)
(* started thread is one of its jobs, and takes its steps.                 *)
(***************************************************************************)
LEMMA StepRefines == IInv /\ [Next]_vars => [Gen!Next]_(Gen!vars)
<1> SUFFICES ASSUME IInv, [Next]_vars
             PROVE  [Gen!Next]_(Gen!vars)
  OBVIOUS
<1>1. CASE UNCHANGED vars
  BY <1>1, StutterRefines DEF vars, delivery, Edits
<1>2. ASSUME NEW r \in Requests, Submit(r) \/ RequestStep(r) \/ Die(r)
      PROVE  [Gen!Next]_(Gen!vars)
  BY <1>2, RequestRefines
<1>3. CASE Regenerate
  BY <1>3, StutterRefines DEF Regenerate, Edits
<1>4. CASE Background
  <2>1. started \subseteq Gen!Jobs
    BY DEF IInv, TypeOK, Gen!Jobs
  <2> QED
    BY <1>4, <2>1 DEF Background, Gen!Next
<1> QED
  BY <1>1, <1>2, <1>3, <1>4 DEF Next

(***************************************************************************)
(* The requests and the threads together are a ReportGeneration.           *)
(***************************************************************************)
THEOREM Refinement == Spec => GenerationSpec
<1>1. Init => Gen!Init
  BY DEF Init, Idle, Gen!Init
<1>2. IInv /\ [Next]_vars => [Gen!Next]_(Gen!vars)
  BY StepRefines
<1> QED
  BY <1>1, <1>2, Invariance, PTL DEF Spec, GenerationSpec, Gen!Spec

-----------------------------------------------------------------------------
(***************************************************************************)
(* What ReportGenerationProofs proves of any jobs and edits is inherited.  *)
(***************************************************************************)
GenProofs == INSTANCE ReportGenerationProofs
               WITH edits <- {r \in Requests : requests[r].pc = "admitted"},
                    DirectCalls <- {}

\* The two instances of ReportGeneration are one specification.
LEMMA SameGeneration ==
    /\ Gen!Init <=> GenProofs!Init
    /\ [Gen!Next]_(Gen!vars) <=> [GenProofs!Next]_(GenProofs!vars)
<1> USE DEF Gen!Draft, Gen!Editable, Gen!Locked, Gen!Expired, Gen!Never,
             Gen!Expiry, Gen!WindowEnd, Gen!IsTerminal, Gen!IsWritable,
             Gen!WindowHasClosed, Gen!DraftHasExpired, Gen!Jobs, Gen!JobAt,
             Gen!InTransaction, Gen!AfterCommit, Gen!Generating, Gen!Goto,
             Gen!Tick, Gen!AdmitEdit, Gen!SaveAnswer, Gen!DropEdit,
             Gen!ReadEngagement, Gen!RenderAndInsert,
             Gen!ApplyFirstGeneration, Gen!ApplyRegeneration, Gen!Commit,
             Gen!Fail, Gen!Email, Gen!StampDelivered, Gen!JobStep,
             Gen!SweepEditableToLocked, Gen!SweepDraftToExpired,
             Gen!engagement, Gen!vars, Gen!Init, Gen!Next, GenProofs!Draft,
             GenProofs!Editable, GenProofs!Locked, GenProofs!Expired,
             GenProofs!Never, GenProofs!Expiry, GenProofs!WindowEnd,
             GenProofs!IsTerminal, GenProofs!IsWritable,
             GenProofs!WindowHasClosed, GenProofs!DraftHasExpired,
             GenProofs!Jobs, GenProofs!JobAt, GenProofs!InTransaction,
             GenProofs!AfterCommit, GenProofs!Generating, GenProofs!Goto,
             GenProofs!Tick, GenProofs!AdmitEdit, GenProofs!SaveAnswer,
             GenProofs!DropEdit, GenProofs!ReadEngagement,
             GenProofs!RenderAndInsert, GenProofs!ApplyFirstGeneration,
             GenProofs!ApplyRegeneration, GenProofs!Commit, GenProofs!Fail,
             GenProofs!Email, GenProofs!StampDelivered, GenProofs!JobStep,
             GenProofs!SweepEditableToLocked, GenProofs!SweepDraftToExpired,
             GenProofs!engagement, GenProofs!vars, GenProofs!Init,
             GenProofs!Next
<1>1. Gen!Init <=> GenProofs!Init
  OBVIOUS
<1>2. Gen!Next <=> GenProofs!Next
  OBVIOUS
<1>3. UNCHANGED Gen!vars <=> UNCHANGED GenProofs!vars
  OBVIOUS
<1> QED
  BY <1>1, <1>2, <1>3

(***************************************************************************)
(* However the respondent's requests overlap, die and start threads, the   *)
(* engagement behind them keeps the promises of ReportGeneration: the      *)
(* report of record is a committed row, what is mailed is on record, every *)
(* first generation has its edit window, a lock is final, and a terminal   *)
(* snapshot settles.                                                       *)
(***************************************************************************)
THEOREM GenerationPromises ==
    Spec => /\ [](/\ GenProofs!RecordIsBacked
                  /\ GenProofs!MailedReportsAreOnRecord
                  /\ GenProofs!WindowIsHonoured)
            /\ GenProofs!LockedIsFinal
            /\ GenProofs!TerminalSnapshotsSettle
<1>1. /\ GenProofs!LifecycleAssumption /\ GenProofs!TimingAssumption
      /\ GenProofs!BoundAssumption /\ GenProofs!NoReportAssumption
  BY GenerationAssumption
     DEF GenProofs!LifecycleAssumption, GenProofs!TimingAssumption,
         GenProofs!BoundAssumption, GenProofs!NoReportAssumption, GenProofs!Jobs
<1>2. GenProofs!Spec =>
        /\ []GenProofs!RecordIsBacked
        /\ []GenProofs!MailedReportsAreOnRecord
        /\ []GenProofs!WindowIsHonoured
        /\ GenProofs!LockedIsFinal
        /\ GenProofs!TerminalSnapshotsSettle
  BY <1>1, GenProofs!RecordBacked, GenProofs!MailOnRecord, GenProofs!WindowHonoured,
     GenProofs!LockIsFinal, GenProofs!TerminalSettles, PTL
<1>3. Init => GenProofs!Init
  BY SameGeneration DEF Init
<1>4. IInv /\ [Next]_vars => [GenProofs!Next]_(GenProofs!vars)
  BY StepRefines, SameGeneration
<1>5. Spec => GenProofs!Spec
  BY <1>3, <1>4, Invariance, PTL DEF Spec, GenProofs!Spec
<1> QED
  BY <1>2, <1>5, PTL
=============================================================================
