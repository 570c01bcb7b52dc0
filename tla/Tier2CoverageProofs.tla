------------------------ MODULE Tier2CoverageProofs ------------------------
(***************************************************************************)
(* Proofs about Tier2Coverage, for any people, roles, brackets, questions, *)
(* documents and requests, and with no bound on lapses.                    *)
(*                                                                         *)
(* Two tokens carry the argument.  The completion of a person is unclaimed *)
(* (not in completed), or in the hands of one request (Announcing), or     *)
(* spent (a notice, a claim, a death): never in two places.  The claim of  *)
(* the coverage is unclaimed (~ coverage_met), or in the hands of one      *)
(* request (Starting), or gone; and as long as a request holds it, the     *)
(* documents started are exactly those before the one it is at.            *)
(***************************************************************************)
EXTENDS Tier2Coverage, FiniteSetTheorems, TLAPS

Starting(r) == requests[r].pc \in {"starting", "queueing"}

Announcing(r) ==
    requests[r].pc \in {"marked", "checking", "notifying", "claiming"}

\* What an open request knows.
RequestsAreBacked ==
    \A r \in Requests :
        /\ requests[r].pc # "idle" => requests[r].person \in People
        /\ requests[r].pc \notin {"idle", "opening"} => requests[r].person \in sessions
        /\ requests[r].pc = "progress" =>
             requests[r].seen <= Cardinality(answered[requests[r].person])

\* Where a request is in the loop over the documents.
PartsInOrder ==
    \A r \in Requests :
        /\ ~ Starting(r) => requests[r].part = 1
        /\ Starting(r) => requests[r].part \in 1..(Len(Parts) + 1)
        /\ requests[r].pc = "queueing" => requests[r].part \in DOMAIN Parts

ClaimHasOnePlace ==
    /\ \A r, s \in Requests : Starting(r) /\ Starting(s) => r = s
    /\ ~ coverage_met => /\ \A i \in DOMAIN Parts : queued[i] = 0
                         /\ \A r \in Requests : ~ Starting(r)
    /\ \A r \in Requests : Starting(r) =>
         \A i \in DOMAIN Parts : queued[i] = IF i < requests[r].part THEN 1 ELSE 0

CompletionHasOnePlace ==
    /\ \A p \in People : notices[p] > 0 => p \in completed
    /\ \A p \in People : notices[p] <= 1
    /\ \A r \in Requests : Announcing(r) =>
         requests[r].person \in completed /\ notices[requests[r].person] = 0
    /\ \A r, s \in Requests :
         Announcing(r) /\ Announcing(s) /\ requests[r].person = requests[s].person
           => r = s

IInv ==
    /\ TypeOK
    /\ RequestsAreBacked
    /\ PartsInOrder
    /\ ClaimHasOnePlace
    /\ CompletionHasOnePlace

-----------------------------------------------------------------------------
\* At the start nobody but the early ones has completed, and all requests are idle.
LEMMA InitIInv == Init => IInv
<1> SUFFICES ASSUME Init PROVE IInv
  OBVIOUS
<1> USE PeopleAssumption, QuestionsAssumption, PartsAssumption
<1>1. \A p \in People : /\ Cardinality(Sees[p]) \in Nat
                        /\ Cardinality({}) = 0
                        /\ IsFiniteSet(Sees[p])
  BY FS_CardinalityType, FS_EmptySet
<1>2. TypeOK
  <2>1. answered \in [People -> SUBSET UNION {Sees[p] : p \in People}]
    <3>1. \A p \in People : Sees[p] \subseteq UNION {Sees[q] : q \in People}
      OBVIOUS
    <3> QED
      BY <3>1 DEF Init
  <2>2. \A p \in People : /\ answered[p] \subseteq Sees[p]
                          /\ done[p] <= Cardinality(answered[p])
    BY <1>1 DEF Init
  <2>3. requests \in [Requests -> RequestRecord]
    BY DEF Init, RequestRecord, Steps, Idle
  <2> QED
    BY <1>1, <2>1, <2>2, <2>3 DEF Init, TypeOK, Statuses, LapseKinds, States!SnapshotStates,
         States!Draft, States!Editable, States!Locked, States!Expired
<1>3. RequestsAreBacked /\ PartsInOrder
  BY DEF Init, RequestsAreBacked, PartsInOrder, Starting, Idle
<1>4. ClaimHasOnePlace /\ CompletionHasOnePlace
  BY DEF Init, ClaimHasOnePlace, CompletionHasOnePlace, Starting, Announcing, Idle
<1> QED
  BY <1>2, <1>3, <1>4 DEF IInv

-----------------------------------------------------------------------------
(* What a step of one request leaves alone.                                 *)

OnlyMoves(r) ==
    /\ requests' \in [Requests -> RequestRecord]
    /\ \A s \in Requests \ {r} : requests'[s] = requests[s]

\* A request goes to its next step with what it knows.
LEMMA GoToMoves ==
  ASSUME TypeOK, NEW r \in Requests, NEW step \in Steps, GoTo(r, step)
  PROVE  /\ OnlyMoves(r)
         /\ requests'[r].pc = step
         /\ requests'[r].person = requests[r].person
         /\ requests'[r].seen = requests[r].seen
         /\ requests'[r].part = requests[r].part
BY DEF TypeOK, GoTo, OnlyMoves, RequestRecord

\* A request that ends forgets what it knew.
LEMMA FinishMoves ==
  ASSUME TypeOK, NEW r \in Requests, Finish(r)
  PROVE  /\ OnlyMoves(r)
         /\ requests'[r].pc = "idle"
         /\ requests'[r].part = 1
BY DEF TypeOK, Finish, Idle, OnlyMoves, RequestRecord, Steps

\* A request begins with one person.
LEMMA BeginMoves ==
  ASSUME TypeOK, NEW r \in Requests, NEW p \in People, NEW step \in Steps,
         Begin(r, p, step)
  PROVE  /\ OnlyMoves(r)
         /\ requests[r].pc = "idle"
         /\ requests'[r].pc = step
         /\ requests'[r].person = p
         /\ requests'[r].seen = requests[r].seen
         /\ requests'[r].part = requests[r].part
BY DEF TypeOK, Begin, OnlyMoves, RequestRecord

\* The answers of a person can be counted.
LEMMA AnswersAreCounted ==
  ASSUME TypeOK, NEW p \in People
  PROVE  /\ Cardinality(answered[p]) \in Nat
         /\ IsFiniteSet(answered[p])
BY QuestionsAssumption, FS_Subset, FS_CardinalityType DEF TypeOK

\* A request that is not in the loop over the documents.
LEMMA ClaimKept ==
  ASSUME TypeOK, PartsInOrder, ClaimHasOnePlace, NEW r \in Requests, OnlyMoves(r),
         requests'[r].pc \notin {"starting", "queueing"}, requests'[r].part = 1,
         UNCHANGED <<coverage_met, queued>>
  PROVE  PartsInOrder' /\ ClaimHasOnePlace'
BY DEF TypeOK, PartsInOrder, ClaimHasOnePlace, OnlyMoves, Starting

\* A request that claims and announces nothing.
LEMMA CompletionKept ==
  ASSUME TypeOK, CompletionHasOnePlace, NEW r \in Requests, OnlyMoves(r),
         UNCHANGED <<completed, notices>>,
         Announcing(r)' => /\ Announcing(r)
                           /\ requests'[r].person = requests[r].person
  PROVE  CompletionHasOnePlace'
BY DEF TypeOK, CompletionHasOnePlace, OnlyMoves, Announcing

\* Answers and sessions are never taken back.
LEMMA BackedKept ==
  ASSUME TypeOK, RequestsAreBacked, NEW r \in Requests, OnlyMoves(r),
         UNCHANGED answered, sessions \subseteq sessions',
         requests'[r].pc # "idle" => requests'[r].person \in People,
         requests'[r].pc \notin {"idle", "opening"} =>
           requests'[r].person \in sessions',
         requests'[r].pc = "progress" =>
           requests'[r].seen <= Cardinality(answered[requests'[r].person])
  PROVE  RequestsAreBacked'
BY DEF RequestsAreBacked, OnlyMoves

-----------------------------------------------------------------------------
(* The steps that write no row.                                             *)

\* They leave every row as it was; only the request learns something.
LEMMA ReadOnlySteps ==
  ASSUME IInv, NEW r \in Requests, UNCHANGED <<people, snapshot_state, outcome>>,
         \/ \E p \in People : Admit(r, p)
         \/ CountAnswers(r)
         \/ ProgressFails(r)
         \/ NextQuestion(r)
         \/ ReadEngagement(r)
         \/ CheckCoverage(r)
         \/ Die(r)
  PROVE  IInv'
<1> USE DEF IInv
<1>1. /\ OnlyMoves(r)
      /\ requests'[r].pc \notin {"starting", "queueing"}
      /\ requests'[r].part = 1
      /\ Announcing(r)' => Announcing(r) /\ requests'[r].person = requests[r].person
      /\ requests'[r].pc # "idle" => requests'[r].person \in People
      /\ requests'[r].pc \notin {"idle", "opening"} => requests'[r].person \in sessions
      /\ requests'[r].pc = "progress" =>
           requests'[r].seen <= Cardinality(answered[requests'[r].person])
  <2> USE DEF Steps, RequestsAreBacked, PartsInOrder, Starting, Announcing
  <2>1. CASE \E p \in People : Admit(r, p)
    <3>1. PICK p \in People, step \in {"attesting", "admitted"} :
            Begin(r, p, step) /\ p \in sessions
      BY <2>1 DEF Admit
    <3> QED
      BY <3>1, BeginMoves
  <2>2. CASE CountAnswers(r)
    <3>1. requests[r].pc = "saved" /\ requests[r].person \in People
      BY <2>2 DEF CountAnswers
    <3>2. Cardinality(answered[requests[r].person]) \in Nat
      BY <3>1, AnswersAreCounted
    <3>3. /\ OnlyMoves(r)
          /\ requests'[r].pc = "progress"
          /\ requests'[r].person = requests[r].person
          /\ requests'[r].part = requests[r].part
          /\ requests'[r].seen = Cardinality(answered[requests[r].person])
      BY <2>2, <3>2 DEF CountAnswers, TypeOK, RequestRecord, OnlyMoves
    <3> QED
      BY <3>1, <3>2, <3>3
  <2>3. CASE ProgressFails(r)
    <3>1. requests[r].pc \in {"saved", "progress"} /\ GoTo(r, "asking")
      BY <2>3 DEF ProgressFails
    <3> QED
      BY <3>1, GoToMoves
  <2>4. CASE NextQuestion(r)
    <3>1. requests[r].pc = "asking" /\ (GoTo(r, "no_more") \/ Finish(r))
      BY <2>4 DEF NextQuestion
    <3> QED
      BY <3>1, GoToMoves, FinishMoves
  <2>5. CASE ReadEngagement(r)
    <3>1. /\ requests[r].pc = "marked"
          /\ OnlyMoves(r)
          /\ requests'[r].pc = "checking"
          /\ requests'[r].person = requests[r].person
          /\ requests'[r].part = requests[r].part
      BY <2>5 DEF ReadEngagement, TypeOK, RequestRecord, OnlyMoves
    <3> QED
      BY <3>1
  <2>6. CASE CheckCoverage(r)
    <3>1. requests[r].pc = "checking" /\ (GoTo(r, "claiming") \/ GoTo(r, "notifying"))
      BY <2>6 DEF CheckCoverage
    <3> QED
      BY <3>1, GoToMoves
  <2>7. CASE Die(r)
    BY <2>7, FinishMoves DEF Die
  <2> QED
    BY <2>1, <2>2, <2>3, <2>4, <2>5, <2>6, <2>7
<1>2. lapses' \subseteq LapseKinds
  BY DEF TypeOK, LapseKinds, Admit, CountAnswers, ProgressFails, NextQuestion,
         ReadEngagement, CheckCoverage, Die
<1>3. TypeOK'
  BY <1>1, <1>2 DEF TypeOK, OnlyMoves, people, outcome
<1> QED
  BY <1>1, <1>3, ClaimKept, CompletionKept, BackedKept DEF people, outcome

-----------------------------------------------------------------------------
(* The steps that write rows of respondents and responses.                  *)

\* The dashboard, the links already opened, the threads and sweeps.
LEMMA OtherSteps ==
  ASSUME IInv,
         \/ \E p \in People : Invite(p) \/ Remove(p)
         \/ Lifecycle
  PROVE  IInv'
<1> USE DEF IInv, outcome, people
<1>1. UNCHANGED <<answered, done, attested, completed, sessions, outcome, requests>>
  BY DEF Invite, Remove, Lifecycle
<1>2. status' \in [People -> Statuses]
  BY DEF Invite, Remove, Lifecycle, TypeOK, Statuses
<1>3. snapshot_state' \in States!SnapshotStates
  BY DEF Invite, Remove, Lifecycle, TypeOK, States!SnapshotStates, States!Draft,
         States!Editable, States!Locked, States!Expired
<1>4. lapses' \subseteq LapseKinds
  BY DEF Invite, Remove, Lifecycle, TypeOK, LapseKinds
<1>5. TypeOK'
  BY <1>1, <1>2, <1>3, <1>4 DEF TypeOK
<1> QED
  BY <1>1, <1>5 DEF RequestsAreBacked, PartsInOrder, ClaimHasOnePlace,
                    CompletionHasOnePlace, Starting, Announcing

\* The link, from either kind of respondent.
LEMMA LinkSteps ==
  ASSUME IInv, NEW r \in Requests,
         (\E p \in People : OpenLink(r, p)) \/ MarkOpened(r)
  PROVE  IInv'
<1> USE DEF IInv
<1>1. /\ OnlyMoves(r)
      /\ status' \in [People -> Statuses]
      /\ sessions \subseteq sessions'
      /\ sessions' \subseteq People
      /\ UNCHANGED <<answered, done, attested, completed, snapshot_state, outcome, lapses>>
      /\ requests'[r].pc \in {"idle", "opening"}
      /\ requests'[r].part = 1
      /\ requests'[r].pc # "idle" => requests'[r].person \in People
  <2> USE DEF TypeOK, Steps, PartsInOrder, Starting
  <2>1. CASE \E p \in People : OpenLink(r, p)
    <3>1. PICK p \in People : OpenLink(r, p)
      BY <2>1
    <3>2. CASE Begin(r, p, "opening") /\ UNCHANGED sessions
      BY <3>1, <3>2, BeginMoves DEF OpenLink
    <3>3. CASE /\ requests[r].pc = "idle"
               /\ sessions' = sessions \cup {p}
               /\ UNCHANGED requests
      BY <3>1, <3>3 DEF OpenLink, OnlyMoves
    <3> QED
      BY <3>1, <3>2, <3>3 DEF OpenLink
  <2>2. CASE MarkOpened(r)
    <3>1. requests[r].person \in People
      BY <2>2 DEF MarkOpened, RequestsAreBacked
    <3> QED
      BY <2>2, <3>1, FinishMoves DEF MarkOpened, Statuses
  <2> QED
    BY <2>1, <2>2
<1>2. TypeOK'
  BY <1>1 DEF TypeOK, OnlyMoves, outcome
<1> QED
  BY <1>1, <1>2, ClaimKept, CompletionKept, BackedKept DEF Announcing, outcome

\* A signature on the attestation page.
LEMMA AttestationStep ==
  ASSUME IInv, NEW r \in Requests, SignAttestation(r)
  PROVE  IInv'
<1> USE DEF IInv
<1>1. requests[r].person \in sessions
  BY DEF SignAttestation, RequestsAreBacked
<1>2. /\ OnlyMoves(r)
      /\ requests'[r].pc = "idle"
      /\ requests'[r].part = 1
  BY FinishMoves DEF SignAttestation
<1>3. TypeOK'
  BY <1>1, <1>2 DEF TypeOK, OnlyMoves, SignAttestation, LapseKinds, outcome
<1> QED
  BY <1>2, <1>3, ClaimKept, CompletionKept, BackedKept
     DEF SignAttestation, Announcing, outcome

\* One answer more of the request's person.
LEMMA SaveStep ==
  ASSUME IInv, NEW r \in Requests, Save(r)
  PROVE  IInv'
<1> USE DEF IInv
<1>1. PICK q \in Sees[requests[r].person] :
        answered' = [answered EXCEPT ![requests[r].person] = @ \cup {q}]
  BY DEF Save
<1>2. /\ requests[r].pc = "admitted"
      /\ requests[r].person \in sessions
      /\ requests[r].person \in People
  BY DEF Save, RequestsAreBacked
<1>3. /\ OnlyMoves(r)
      /\ requests'[r].pc = "saved"
      /\ requests'[r].person = requests[r].person
      /\ requests'[r].part = requests[r].part
  BY GoToMoves DEF Save, Steps
<1>4. \A p \in People : answered[p] \subseteq answered'[p] /\ answered'[p] \subseteq Sees[p]
  BY <1>1, <1>2 DEF TypeOK
<1>5. \A p \in People : /\ Cardinality(answered[p]) \in Nat
                        /\ Cardinality(answered'[p]) \in Nat
                        /\ Cardinality(answered[p]) <= Cardinality(answered'[p])
  <2> TAKE p \in People
  <2>1. IsFiniteSet(answered'[p])
    BY <1>4, QuestionsAssumption, FS_Subset
  <2> QED
    BY <1>4, <2>1, AnswersAreCounted, FS_Subset, FS_CardinalityType
<1>6. TypeOK'
  <2>1. answered' \in [People -> SUBSET UNION {Sees[p] : p \in People}]
    <3>1. q \in UNION {Sees[p] : p \in People}
      BY <1>1, <1>2
    <3> QED
      BY <1>1, <1>2, <3>1 DEF TypeOK
  <2>2. \A p \in People : done'[p] <= Cardinality(answered'[p])
    <3> TAKE p \in People
    <3>1. done'[p] = done[p] /\ done[p] \in Nat /\ done[p] <= Cardinality(answered[p])
      BY DEF TypeOK, Save
    <3> QED
      BY <1>5, <3>1
  <2> QED
    BY <1>3, <1>4, <2>1, <2>2 DEF TypeOK, OnlyMoves, Save, outcome
<1>7. RequestsAreBacked'
  <2> SUFFICES ASSUME NEW s \in Requests
               PROVE  /\ requests'[s].pc # "idle" => requests'[s].person \in People
                      /\ requests'[s].pc \notin {"idle", "opening"} =>
                           requests'[s].person \in sessions'
                      /\ requests'[s].pc = "progress" =>
                           requests'[s].seen <= Cardinality(answered'[requests'[s].person])
    BY DEF RequestsAreBacked
  <2>1. CASE s = r
    BY <2>1, <1>2, <1>3 DEF Save
  <2>2. CASE s # r
    <3>1. requests'[s] = requests[s] /\ requests'[s].seen \in Nat
      BY <2>2, <1>3 DEF OnlyMoves, TypeOK, RequestRecord
    <3>2. requests'[s].pc = "progress" =>
            requests'[s].seen <= Cardinality(answered'[requests'[s].person])
      BY <3>1, <1>5 DEF RequestsAreBacked
    <3> QED
      BY <3>1, <3>2 DEF RequestsAreBacked, Save
  <2> QED
    BY <2>1, <2>2
<1> QED
  BY <1>2, <1>3, <1>6, <1>7, ClaimKept, CompletionKept
     DEF Save, PartsInOrder, Starting, Announcing, outcome

\* The percentage: what the request has counted, which may be out of date.
LEMMA WriteProgressStep ==
  ASSUME IInv, NEW r \in Requests, WriteProgress(r)
  PROVE  IInv'
<1> USE DEF IInv
<1>1. /\ requests[r].pc = "progress"
      /\ requests[r].person \in sessions
      /\ requests[r].person \in People
      /\ requests[r].seen \in 0..Cardinality(answered[requests[r].person])
  <2>1. requests[r].pc = "progress" /\ requests[r].person \in People
    BY DEF WriteProgress, RequestsAreBacked
  <2>2. requests[r].seen \in Nat
    BY DEF TypeOK, RequestRecord
  <2> QED
    BY <2>1, <2>2, AnswersAreCounted DEF RequestsAreBacked
<1>2. /\ OnlyMoves(r)
      /\ requests'[r].pc = "asking"
      /\ requests'[r].person = requests[r].person
      /\ requests'[r].part = requests[r].part
  BY GoToMoves DEF WriteProgress, Steps
<1>3. TypeOK'
  <2>1. /\ done' \in [People -> Nat]
        /\ \A p \in People : done'[p] <= Cardinality(answered[p])
    BY <1>1, AnswersAreCounted DEF TypeOK, WriteProgress
  <2>2. status' \in [People -> Statuses]
    BY <1>1 DEF TypeOK, WriteProgress, Statuses
  <2>3. lapses' \subseteq LapseKinds
    BY DEF TypeOK, WriteProgress, LapseKinds
  <2> QED
    BY <1>2, <2>1, <2>2, <2>3 DEF TypeOK, OnlyMoves, WriteProgress, outcome
<1> QED
  BY <1>1, <1>2, <1>3, ClaimKept, CompletionKept, BackedKept
     DEF WriteProgress, PartsInOrder, Starting, Announcing, outcome

-----------------------------------------------------------------------------
(* The steps of on_respondent_complete that pass a token on.                *)

\* The stamp: the token of the completion goes to the one request that sets it.
LEMMA MarkCompleteStep ==
  ASSUME IInv, NEW r \in Requests, MarkComplete(r)
  PROVE  IInv'
<1> USE DEF IInv
<1>1. /\ requests[r].pc = "no_more"
      /\ requests[r].person \in sessions
      /\ requests[r].person \in People
      /\ ~ Announcing(r)
      /\ requests[r].part = 1
  BY DEF MarkComplete, RequestsAreBacked, Announcing, PartsInOrder, Starting
<1>2. CASE Finish(r) /\ UNCHANGED <<status, completed>>
  <2>1. TypeOK'
    BY <1>2, FinishMoves DEF TypeOK, OnlyMoves, MarkComplete, outcome
  <2> QED
    BY <1>1, <1>2, <2>1, FinishMoves, ClaimKept, CompletionKept, BackedKept
       DEF MarkComplete, Announcing, outcome
<1>3. CASE /\ requests[r].person \notin completed
           /\ completed' = completed \cup {requests[r].person}
           /\ status' = [status EXCEPT ![requests[r].person] = "completed"]
           /\ GoTo(r, "marked")
  <2>1. /\ OnlyMoves(r)
        /\ requests'[r].pc = "marked"
        /\ requests'[r].person = requests[r].person
        /\ requests'[r].part = requests[r].part
    BY <1>3, GoToMoves DEF Steps
  <2>2. TypeOK'
    BY <1>1, <1>3, <2>1 DEF TypeOK, OnlyMoves, MarkComplete, Statuses, outcome
  <2>3. CompletionHasOnePlace'
    <3>1. \A s \in Requests : Announcing(s) => requests[s].person # requests[r].person
      BY <1>3 DEF CompletionHasOnePlace
    <3>2. \A s \in Requests \ {r} : Announcing(s)' <=> Announcing(s)
      BY <2>1 DEF OnlyMoves, Announcing
    <3>3. notices[requests[r].person] = 0
      BY <1>1, <1>3 DEF CompletionHasOnePlace, TypeOK
    <3> QED
      BY <1>3, <2>1, <3>1, <3>2, <3>3
         DEF CompletionHasOnePlace, OnlyMoves, MarkComplete, outcome
  <2> QED
    BY <1>1, <2>1, <2>2, <2>3, ClaimKept, BackedKept DEF MarkComplete, outcome
<1> QED
  BY <1>2, <1>3 DEF MarkComplete

\* The notice spends the token of the completion.
LEMMA NotifyStep ==
  ASSUME IInv, NEW r \in Requests, NotifyBuyer(r)
  PROVE  IInv'
<1> USE DEF IInv
<1>1. /\ Announcing(r)
      /\ requests[r].person \in People
      /\ notices[requests[r].person] = 0
      /\ requests[r].person \in completed
  BY DEF NotifyBuyer, Announcing, RequestsAreBacked, CompletionHasOnePlace
<1>2. /\ OnlyMoves(r)
      /\ requests'[r].pc = "idle"
      /\ requests'[r].part = 1
      /\ ~ Announcing(r)'
  BY FinishMoves DEF NotifyBuyer, Announcing
<1>3. /\ notices' \in [People -> Nat]
      /\ notices'[requests[r].person] <= 1
      /\ \A p \in People : p # requests[r].person => notices'[p] = notices[p]
  BY <1>1 DEF NotifyBuyer, TypeOK
<1>4. TypeOK'
  BY <1>2, <1>3 DEF TypeOK, OnlyMoves, NotifyBuyer, people
<1>5. CompletionHasOnePlace'
  <2>1. \A s \in Requests : Announcing(s)' =>
          Announcing(s) /\ s # r /\ requests'[s].person = requests[s].person
    BY <1>2 DEF OnlyMoves, Announcing
  <2>2. \A s \in Requests : Announcing(s)' =>
          /\ requests[s].person # requests[r].person
          /\ requests[s].person \in People
    BY <1>1, <2>1 DEF CompletionHasOnePlace, RequestsAreBacked, Announcing
  <2>3. UNCHANGED completed
    BY DEF NotifyBuyer, people
  <2>4. \A p \in People : (notices'[p] > 0 => p \in completed) /\ notices'[p] <= 1
    BY <1>1, <1>3 DEF CompletionHasOnePlace
  <2>5. \A s \in Requests : Announcing(s)' =>
          requests'[s].person \in completed /\ notices'[requests'[s].person] = 0
    BY <1>3, <2>1, <2>2 DEF CompletionHasOnePlace
  <2>6. \A s, t \in Requests :
          Announcing(s)' /\ Announcing(t)' /\ requests'[s].person = requests'[t].person
            => s = t
    BY <2>1 DEF CompletionHasOnePlace
  <2> QED
    BY <2>3, <2>4, <2>5, <2>6 DEF CompletionHasOnePlace
<1> QED
  BY <1>2, <1>4, <1>5, ClaimKept, BackedKept DEF NotifyBuyer, people

\* A request that takes the claim finds no other with it.
LEMMA ClaimStep ==
  ASSUME IInv, NEW r \in Requests, ClaimCoverage(r)
  PROVE  IInv'
<1> USE DEF IInv
<1>1. /\ requests[r].pc = "claiming"
      /\ requests[r].person \in sessions
      /\ requests[r].person \in People
      /\ requests[r].part = 1
      /\ UNCHANGED <<people, snapshot_state, queued, notices, lapses>>
  BY DEF ClaimCoverage, RequestsAreBacked, PartsInOrder, Starting
<1>2. CASE coverage_met
  <2>1. UNCHANGED coverage_met /\ Finish(r)
    BY <1>2 DEF ClaimCoverage, TypeOK
  <2>2. TypeOK'
    BY <1>1, <2>1, FinishMoves DEF TypeOK, OnlyMoves, people
  <2> QED
    BY <1>1, <2>1, <2>2, FinishMoves, ClaimKept, CompletionKept, BackedKept
       DEF Announcing, people
<1>3. CASE ~ coverage_met
  <2>1. coverage_met' = TRUE /\ GoTo(r, "starting")
    BY <1>3 DEF ClaimCoverage
  <2>2. /\ OnlyMoves(r)
        /\ requests'[r].pc = "starting"
        /\ requests'[r].person = requests[r].person
        /\ requests'[r].part = 1
    BY <1>1, <2>1, GoToMoves DEF Steps
  <2>3. TypeOK'
    BY <1>1, <2>1, <2>2 DEF TypeOK, OnlyMoves, people
  <2>4. \A s \in Requests : Starting(s)' <=> s = r
    BY <1>3, <2>2 DEF Starting, OnlyMoves, ClaimHasOnePlace
  <2>5. \A s \in Requests \ {r} : requests'[s] = requests[s] /\ ~ Starting(s)
    BY <1>3, <2>2 DEF OnlyMoves, ClaimHasOnePlace
  <2>6. PartsInOrder'
    <3>1. Len(Parts) \in Nat
      BY PartsAssumption
    <3> QED
      BY <2>2, <2>4, <2>5, <3>1 DEF PartsInOrder, Starting
  <2>7. ClaimHasOnePlace'
    <3>1. \A i \in DOMAIN Parts : i \in Nat /\ i >= 1
      BY PartsAssumption
    <3> QED
      BY <1>1, <1>3, <2>1, <2>2, <2>4, <3>1 DEF ClaimHasOnePlace
  <2> QED
    BY <1>1, <2>2, <2>3, <2>6, <2>7, CompletionKept, BackedKept DEF Announcing, people
<1> QED
  BY <1>2, <1>3

\* In the loop: a started document is behind the request that starts it.
LEMMA LoopSteps ==
  ASSUME IInv, NEW r \in Requests, PartQueued(r) \/ StartPart(r)
  PROVE  IInv'
<1> USE DEF IInv
<1>1. /\ Starting(r)
      /\ coverage_met = TRUE
      /\ requests[r].person \in sessions
      /\ requests[r].person \in People
      /\ requests[r].part \in 1..(Len(Parts) + 1)
      /\ Len(Parts) \in Nat
      /\ DOMAIN Parts = 1..Len(Parts)
  BY PartsAssumption DEF PartQueued, StartPart, Starting, ClaimHasOnePlace, TypeOK,
     RequestsAreBacked, PartsInOrder
<1>2. /\ \A i \in DOMAIN Parts : queued[i] = IF i < requests[r].part THEN 1 ELSE 0
      /\ \A s \in Requests \ {r} : ~ Starting(s)
  BY <1>1 DEF ClaimHasOnePlace
<1>3. CASE /\ PartQueued(r)
           /\ Finish(r)
  <2>1. UNCHANGED <<people, snapshot_state, outcome, lapses>>
    BY <1>3 DEF PartQueued
  <2>2. TypeOK'
    BY <1>3, <2>1, FinishMoves DEF TypeOK, OnlyMoves, people, outcome
  <2> QED
    BY <1>3, <2>1, <2>2, FinishMoves, ClaimKept, CompletionKept, BackedKept
       DEF Announcing, people, outcome
<1>4. CASE /\ PartQueued(r)
           /\ requests[r].part \in DOMAIN Parts
           /\ GoTo(r, "queueing")
  <2>1. /\ OnlyMoves(r)
        /\ requests'[r].pc = "queueing"
        /\ requests'[r].person = requests[r].person
        /\ requests'[r].part = requests[r].part
        /\ UNCHANGED <<people, snapshot_state, outcome, lapses>>
    BY <1>4, GoToMoves DEF PartQueued, Steps
  <2>2. TypeOK'
    BY <2>1 DEF TypeOK, OnlyMoves, people, outcome
  <2>3. \A s \in Requests \ {r} : requests'[s] = requests[s]
    BY <2>1 DEF OnlyMoves
  <2>4. PartsInOrder'
    BY <1>1, <1>4, <2>1, <2>3 DEF PartsInOrder, Starting
  <2>5. ClaimHasOnePlace'
    BY <1>1, <1>2, <2>1, <2>3 DEF ClaimHasOnePlace, Starting, outcome
  <2> QED
    BY <1>1, <2>1, <2>2, <2>4, <2>5, CompletionKept, BackedKept
       DEF Announcing, people, outcome
<1>5. CASE StartPart(r)
  <2>1. /\ requests[r].part \in DOMAIN Parts
        /\ requests[r].part \in Nat
        /\ UNCHANGED <<people, snapshot_state, coverage_met, notices, lapses>>
    BY <1>1, <1>5 DEF StartPart, PartsInOrder
  <2>2. /\ OnlyMoves(r)
        /\ requests'[r].pc = "starting"
        /\ requests'[r].person = requests[r].person
        /\ requests'[r].part = requests[r].part + 1
    BY <1>5, <2>1 DEF StartPart, TypeOK, OnlyMoves, RequestRecord, Steps
  <2>3. \A s \in Requests \ {r} : requests'[s] = requests[s]
    BY <2>2 DEF OnlyMoves
  <2>4. /\ queued' \in [DOMAIN Parts -> Nat]
        /\ \A i \in DOMAIN Parts : queued'[i] = IF i < requests'[r].part THEN 1 ELSE 0
    BY <1>1, <1>2, <1>5, <2>1, <2>2 DEF StartPart, TypeOK
  <2>5. TypeOK'
    BY <2>1, <2>2, <2>4 DEF TypeOK, OnlyMoves, people
  <2>6. PartsInOrder'
    BY <1>1, <2>1, <2>2, <2>3 DEF PartsInOrder, Starting
  <2>7. ClaimHasOnePlace'
    BY <1>1, <1>2, <2>1, <2>2, <2>3, <2>4 DEF ClaimHasOnePlace, Starting
  <2> QED
    BY <1>1, <2>1, <2>2, <2>5, <2>6, <2>7, CompletionKept, BackedKept
       DEF Announcing, people
\* PartQueued never finds the document it is at started.
<1>6. PartQueued(r) =>
        \/ Finish(r)
        \/ requests[r].part \in DOMAIN Parts /\ GoTo(r, "queueing")
  <2> SUFFICES ASSUME PartQueued(r), requests[r].part \in DOMAIN Parts
               PROVE  GoTo(r, "queueing")
    BY DEF PartQueued
  <2>1. queued[requests[r].part] = 0
    BY <1>1, <1>2
  <2> QED
    BY <2>1 DEF PartQueued
<1> QED
  BY <1>3, <1>4, <1>5, <1>6

\* Every step, action by action.
LEMMA NextIInv == IInv /\ [Next]_vars => IInv'
<1> SUFFICES ASSUME IInv, [Next]_vars PROVE IInv'
  OBVIOUS
<1>1. ASSUME NEW p \in People, Invite(p) \/ Remove(p) PROVE IInv'
  BY <1>1, OtherSteps
<1>2. ASSUME NEW r \in Requests, NEW p \in People, OpenLink(r, p) PROVE IInv'
  BY <1>2, LinkSteps
<1>3. ASSUME NEW r \in Requests, NEW p \in People, Admit(r, p) PROVE IInv'
  <2>1. UNCHANGED <<people, snapshot_state, outcome>>
    BY <1>3 DEF Admit
  <2> QED
    BY <1>3, <2>1, ReadOnlySteps
<1>4. ASSUME NEW r \in Requests, RequestStep(r) PROVE IInv'
  <2>1. CASE \/ CountAnswers(r) \/ ProgressFails(r) \/ NextQuestion(r)
             \/ ReadEngagement(r) \/ CheckCoverage(r) \/ Die(r)
    <3>1. UNCHANGED <<people, snapshot_state, outcome>>
      BY <2>1 DEF CountAnswers, ProgressFails, NextQuestion, ReadEngagement,
                  CheckCoverage, Die
    <3> QED
      BY <2>1, <3>1, ReadOnlySteps
  <2>2. CASE MarkOpened(r)
    BY <2>2, LinkSteps
  <2>3. CASE SignAttestation(r)
    BY <2>3, AttestationStep
  <2>4. CASE Save(r)
    BY <2>4, SaveStep
  <2>5. CASE WriteProgress(r)
    BY <2>5, WriteProgressStep
  <2>6. CASE MarkComplete(r)
    BY <2>6, MarkCompleteStep
  <2>7. CASE NotifyBuyer(r)
    BY <2>7, NotifyStep
  <2>8. CASE ClaimCoverage(r)
    BY <2>8, ClaimStep
  <2>9. CASE PartQueued(r) \/ StartPart(r)
    BY <2>9, LoopSteps
  <2> QED
    BY <1>4, <2>1, <2>2, <2>3, <2>4, <2>5, <2>6, <2>7, <2>8, <2>9 DEF RequestStep
<1>5. CASE Lifecycle
  BY <1>5, OtherSteps
<1>6. CASE UNCHANGED vars
  BY <1>6 DEF vars, people, outcome, IInv, TypeOK, RequestsAreBacked, PartsInOrder,
              ClaimHasOnePlace, CompletionHasOnePlace, Starting, Announcing
<1> QED
  BY <1>1, <1>2, <1>3, <1>4, <1>5, <1>6 DEF Next

(***************************************************************************)
(* The inductive invariant of the Tier 2 completion trigger.               *)
(***************************************************************************)
THEOREM Invariance == Spec => []IInv
BY InitIInv, NextIInv, PTL DEF Spec

(***************************************************************************)
(* Rows and requests stay in their types, and completion_percentage never  *)
(* says more than the respondent has answered (_update_progress).          *)
(***************************************************************************)
THEOREM TypeCorrect == Spec => []TypeOK
<1>1. IInv => TypeOK
  BY DEF IInv
<1> QED
  BY <1>1, Invariance, PTL

(***************************************************************************)
(* The buyer hears of each completion at most once (_mark_complete,        *)
(* notify_buyer_progress).                                                 *)
(***************************************************************************)
THEOREM AnnouncedOnce == Spec => []CompletionsAreAnnouncedOnce
<1>1. IInv => CompletionsAreAnnouncedOnce
  BY DEF IInv, CompletionHasOnePlace, CompletionsAreAnnouncedOnce
<1> QED
  BY <1>1, Invariance, PTL

-----------------------------------------------------------------------------
(***************************************************************************)
(* Why the last completion claims.  While coverage is met by people who    *)
(* have all completed, and nobody has claimed it, a request is between the *)
(* stamp of its completion and its claim: what it has yet to read can only *)
(* tell it that coverage is met.  Whatever could bring that state about    *)
(* behind its back is a lapse.                                             *)
(***************************************************************************)
Looking(r) == requests[r].pc \in {"marked", "checking", "claiming"}

\* What a row, or a request that is at it, says of what has happened.
RowsTellThePast ==
    /\ \A p \in sessions : status[p] # "none"
    /\ \A r \in Requests : requests[r].pc = "opening" => status[requests[r].person] # "none"
    /\ \A p \in People : status[p] = "removed" => lapses # {}

MetWasRead == \A r \in Requests : requests[r].met => coverage_met

Unclaimed ==
    /\ Active \subseteq completed
    /\ CoverageIsMet
    /\ lapses = {}
    /\ ~ coverage_met

SomeoneLooks == Unclaimed => \E r \in Requests : Looking(r)

\* Nobody had completed but the early ones, who did not meet the coverage.
LEMMA InitLooks == Init => RowsTellThePast /\ MetWasRead /\ SomeoneLooks
<1> SUFFICES ASSUME Init PROVE RowsTellThePast /\ MetWasRead /\ SomeoneLooks
  OBVIOUS
<1> USE PeopleAssumption
<1>1. RowsTellThePast /\ MetWasRead
  BY DEF Init, RowsTellThePast, MetWasRead, Idle
<1>2. Active = Early
  BY DEF Init, Active
<1>3. Counted = {p \in Early : EnoughAnswered(Cardinality(Sees[p]), Cardinality(Sees[p]))}
  BY <1>2 DEF Init, Counted
<1>4. ~ CoverageIsMet
  BY <1>2, <1>3, EarlyAssumption DEF CoverageIsMet
<1> QED
  BY <1>1, <1>4 DEF SomeoneLooks, Unclaimed

-----------------------------------------------------------------------------
\* A claim that was read is not taken back.
LEMMA NextReads == IInv /\ MetWasRead /\ [Next]_vars => MetWasRead'
<1> SUFFICES ASSUME IInv, MetWasRead, [Next]_vars PROVE MetWasRead'
  OBVIOUS
<1> USE DEF IInv, TypeOK, MetWasRead
<1>1. coverage_met => coverage_met'
  BY DEF Next, vars, outcome, RequestStep, Invite, Remove, OpenLink, Admit, MarkOpened,
         SignAttestation, Save, CountAnswers, WriteProgress, ProgressFails, NextQuestion,
         MarkComplete, ReadEngagement, CheckCoverage, NotifyBuyer, ClaimCoverage,
         PartQueued, StartPart, Die, Lifecycle
<1>2. \A s \in Requests : requests'[s].met => requests[s].met \/ coverage_met
  <2>1. requests \in [Requests -> RequestRecord]
    OBVIOUS
  <2>2. ASSUME NEW r \in Requests, Finish(r)
        PROVE  \A s \in Requests : requests'[s].met => requests[s].met
    BY <2>2 DEF Finish, Idle
  <2>3. ASSUME NEW r \in Requests, NEW step, GoTo(r, step)
        PROVE  \A s \in Requests : requests'[s].met => requests[s].met
    BY <2>3 DEF GoTo, RequestRecord
  <2>4. ASSUME NEW r \in Requests, NEW p, NEW step, Begin(r, p, step)
        PROVE  \A s \in Requests : requests'[s].met => requests[s].met
    BY <2>4 DEF Begin, RequestRecord
  <2>5. ASSUME NEW r \in Requests, NEW p \in People, OpenLink(r, p) \/ Admit(r, p)
        PROVE  \A s \in Requests : requests'[s].met => requests[s].met
    BY <2>4, <2>5 DEF OpenLink, Admit
  <2>6. ASSUME NEW r \in Requests, RequestStep(r)
        PROVE  \A s \in Requests : requests'[s].met => requests[s].met \/ coverage_met
    <3>1. CASE MarkOpened(r) \/ SignAttestation(r) \/ NotifyBuyer(r) \/ Die(r)
      BY <2>2, <3>1 DEF MarkOpened, SignAttestation, NotifyBuyer, Die
    <3>2. CASE Save(r) \/ WriteProgress(r) \/ ProgressFails(r) \/ CheckCoverage(r)
      BY <2>3, <3>2 DEF Save, WriteProgress, ProgressFails, CheckCoverage
    <3>3. CASE NextQuestion(r) \/ MarkComplete(r) \/ ClaimCoverage(r)
      BY <2>2, <2>3, <3>3 DEF NextQuestion, MarkComplete, ClaimCoverage
    <3>4. CASE CountAnswers(r)
      BY <2>1, <3>4 DEF CountAnswers, RequestRecord
    <3>5. CASE ReadEngagement(r)
      BY <2>1, <3>5 DEF ReadEngagement, RequestRecord
    <3>6. CASE PartQueued(r)
      <4>1. CASE requests' = [requests EXCEPT ![r].part = @ + 1]
        BY <2>1, <4>1 DEF RequestRecord
      <4> QED
        BY <2>2, <2>3, <3>6, <4>1 DEF PartQueued
    <3>7. CASE StartPart(r)
      BY <2>1, <3>7 DEF StartPart, RequestRecord
    <3> QED
      BY <2>6, <3>1, <3>2, <3>3, <3>4, <3>5, <3>6, <3>7 DEF RequestStep
  <2>7. ASSUME UNCHANGED requests
        PROVE  \A s \in Requests : requests'[s].met => requests[s].met
    BY <2>7
  <2> QED
    BY <2>5, <2>6, <2>7 DEF Next, vars, Invite, Remove, Lifecycle
<1> QED
  BY <1>1, <1>2

\* Rows are not deleted, and only the buyer removes.
LEMMA NextTellsThePast == IInv /\ RowsTellThePast /\ [Next]_vars => RowsTellThePast'
<1> SUFFICES ASSUME IInv, RowsTellThePast, [Next]_vars PROVE RowsTellThePast'
  OBVIOUS
<1> USE DEF IInv, TypeOK, RowsTellThePast
<1>1. ASSUME UNCHANGED <<status, sessions>>, lapses \subseteq lapses',
             \A s \in Requests : requests'[s].pc = "opening" =>
               requests[s].pc = "opening" /\ requests'[s].person = requests[s].person
      PROVE  RowsTellThePast'
  BY <1>1
<1>2. ASSUME NEW r \in Requests, OnlyMoves(r), requests'[r].pc # "opening",
             UNCHANGED <<status, sessions>>, lapses \subseteq lapses'
      PROVE  RowsTellThePast'
  BY <1>1, <1>2 DEF OnlyMoves
<1>3. ASSUME NEW p \in People, Invite(p) \/ Remove(p)
      PROVE  RowsTellThePast'
  <2>1. \A q \in People : status[q] # "none" => status'[q] # "none"
    BY <1>3 DEF Invite, Remove
  <2>2. \A q \in People : status'[q] = "removed" => lapses' # {}
    BY <1>3 DEF Invite, Remove
  <2>3. \A r \in Requests : requests[r].pc = "opening" => requests[r].person \in People
    BY DEF RequestsAreBacked
  <2> QED
    BY <1>3, <2>1, <2>2, <2>3 DEF Invite, Remove
<1>4. ASSUME NEW r \in Requests, NEW p \in People, OpenLink(r, p)
      PROVE  RowsTellThePast'
  <2>1. CASE Begin(r, p, "opening") /\ UNCHANGED sessions
    <3>1. OnlyMoves(r) /\ requests'[r].person = p
      BY <2>1, BeginMoves DEF Steps
    <3> QED
      BY <1>4, <2>1, <3>1 DEF OpenLink, OnlyMoves
  <2>2. CASE sessions' = sessions \cup {p} /\ UNCHANGED requests
    BY <1>4, <2>2 DEF OpenLink
  <2> QED
    BY <1>4, <2>1, <2>2 DEF OpenLink
<1>5. ASSUME NEW r \in Requests, NEW p \in People, Admit(r, p)
      PROVE  RowsTellThePast'
  <2>1. PICK step \in {"attesting", "admitted"} : Begin(r, p, step)
    BY <1>5 DEF Admit
  <2>2. OnlyMoves(r) /\ requests'[r].pc # "opening"
    BY <2>1, BeginMoves DEF Steps
  <2> QED
    BY <1>2, <1>5, <2>2 DEF Admit, people
<1>6. ASSUME NEW r \in Requests, MarkOpened(r)
      PROVE  RowsTellThePast'
  <2>1. OnlyMoves(r) /\ requests'[r].pc = "idle" /\ requests[r].person \in People
    BY <1>6, FinishMoves DEF MarkOpened, RequestsAreBacked
  <2>2. \A p \in People :
          status'[p] = IF p = requests[r].person THEN "in_progress" ELSE status[p]
    BY <1>6 DEF MarkOpened
  <2>3. \A s \in Requests : requests[s].pc = "opening" => requests[s].person \in People
    BY DEF RequestsAreBacked
  <2>4. sessions' = sessions \cup {requests[r].person} /\ UNCHANGED lapses
    BY <1>6 DEF MarkOpened
  <2> QED
    BY <2>1, <2>2, <2>3, <2>4 DEF OnlyMoves
<1>7. ASSUME NEW r \in Requests, WriteProgress(r) \/ MarkComplete(r)
      PROVE  RowsTellThePast'
  <2>1. OnlyMoves(r) /\ requests'[r].pc # "opening"
    BY <1>7, GoToMoves, FinishMoves DEF WriteProgress, MarkComplete, Steps
  <2>2. UNCHANGED sessions /\ lapses \subseteq lapses'
    BY <1>7 DEF WriteProgress, MarkComplete
  <2>3. \A p \in People : status'[p] \in {status[p], "in_progress", "completed"}
    BY <1>7 DEF WriteProgress, MarkComplete
  <2>4. \A s \in Requests : requests[s].pc = "opening" => requests[s].person \in People
    BY DEF RequestsAreBacked
  <2> QED
    BY <2>1, <2>2, <2>3, <2>4 DEF OnlyMoves
<1>8. ASSUME NEW r \in Requests, RequestStep(r), ~ MarkOpened(r), ~ WriteProgress(r),
             ~ MarkComplete(r)
      PROVE  RowsTellThePast'
  <2>1. UNCHANGED <<status, sessions>> /\ lapses \subseteq lapses'
    BY <1>8 DEF RequestStep, people, SignAttestation, Save, CountAnswers, ProgressFails,
       NextQuestion, ReadEngagement, CheckCoverage, NotifyBuyer, ClaimCoverage, PartQueued,
       StartPart, Die
  <2>2. \A s \in Requests : requests'[s].pc = "opening" =>
          requests[s].pc = "opening" /\ requests'[s].person = requests[s].person
    <3>1. CASE SignAttestation(r) \/ NotifyBuyer(r) \/ Die(r)
      BY <3>1, FinishMoves DEF OnlyMoves, SignAttestation, NotifyBuyer, Die
    <3>2. CASE Save(r) \/ ProgressFails(r) \/ CheckCoverage(r)
      BY <3>2, GoToMoves DEF OnlyMoves, Save, ProgressFails, CheckCoverage, Steps
    <3>3. CASE NextQuestion(r) \/ ClaimCoverage(r)
      BY <3>3, GoToMoves, FinishMoves DEF OnlyMoves, NextQuestion, ClaimCoverage, Steps
    <3>4. CASE CountAnswers(r)
      BY <3>4 DEF CountAnswers, RequestRecord
    <3>5. CASE ReadEngagement(r)
      BY <3>5 DEF ReadEngagement, RequestRecord
    <3>6. CASE PartQueued(r)
      <4>1. CASE requests' = [requests EXCEPT ![r].part = @ + 1]
        BY <4>1 DEF RequestRecord
      <4>2. CASE Finish(r) \/ GoTo(r, "queueing")
        BY <4>2, GoToMoves, FinishMoves DEF OnlyMoves, Steps
      <4> QED
        BY <3>6, <4>1, <4>2 DEF PartQueued
    <3>7. CASE StartPart(r)
      BY <3>7 DEF StartPart, RequestRecord
    <3> QED
      BY <1>8, <3>1, <3>2, <3>3, <3>4, <3>5, <3>6, <3>7 DEF RequestStep
  <2> QED
    BY <1>1, <2>1, <2>2
<1>9. CASE Lifecycle \/ UNCHANGED vars
  <2>1. UNCHANGED <<status, sessions, requests, lapses>>
    BY <1>9 DEF Lifecycle, vars, people
  <2> QED
    BY <2>1
<1> HIDE DEF IInv, TypeOK, RowsTellThePast
<1>10. ASSUME NEW r \in Requests, RequestStep(r)
       PROVE  RowsTellThePast'
  BY <1>6, <1>7, <1>8, <1>10
<1> QED
  BY <1>3, <1>4, <1>5, <1>9, <1>10 DEF Next

-----------------------------------------------------------------------------
\* Nothing that coverage is judged by changes, and no request stops looking.
LEMMA LookingKept ==
    ASSUME SomeoneLooks, TypeOK,
           Active' = Active, Counted' = Counted, completed' = completed,
           lapses \subseteq lapses', coverage_met => coverage_met',
           \A r \in Requests : Looking(r) => Looking(r)'
    PROVE  SomeoneLooks'
<1>1. CoverageIsMet' = CoverageIsMet
  BY DEF CoverageIsMet
<1>2. Unclaimed' => Unclaimed
  BY <1>1 DEF Unclaimed
<1> QED
  BY <1>2 DEF SomeoneLooks

\* The same, of a step that leaves these rows alone.
LEMMA SameRows ==
    ASSUME SomeoneLooks, TypeOK, UNCHANGED <<status, done, attested, completed>>,
           lapses \subseteq lapses', coverage_met => coverage_met',
           \A r \in Requests : Looking(r) => Looking(r)'
    PROVE  SomeoneLooks'
<1>1. Active' = Active /\ Counted' = Counted
  BY DEF Active, Counted
<1> QED
  BY <1>1, LookingKept

\* A step of one request, which was not looking.
LEMMA OthersLook ==
    ASSUME NEW r \in Requests, OnlyMoves(r), ~ Looking(r)
    PROVE  \A s \in Requests : Looking(s) => Looking(s)'
BY DEF OnlyMoves, Looking

\* Whoever attests after completing is a lapse; before that, not all have completed.
LEMMA SignLooks ==
    ASSUME IInv, SomeoneLooks, NEW r \in Requests, SignAttestation(r)
    PROVE  SomeoneLooks'
<1> DEFINE p == requests[r].person
<1>1. UNCHANGED <<status, done, completed, coverage_met>>
      /\ attested' = attested \cup {p} /\ lapses \subseteq lapses'
  BY DEF SignAttestation, outcome
<1>2. \A s \in Requests : Looking(s) => Looking(s)'
  BY FinishMoves, OthersLook DEF SignAttestation, IInv, Looking
<1>3. CASE p \in completed \ attested
  BY <1>3 DEF SignAttestation, SomeoneLooks, Unclaimed
<1>4. CASE p \in attested
  BY <1>1, <1>2, <1>4, SameRows DEF IInv
<1>5. CASE p \notin completed /\ p \notin attested
  <2>1. Active' = Active
    BY <1>1 DEF Active
  <2>2. CASE p \in Active
    BY <1>1, <1>5, <2>1, <2>2 DEF SomeoneLooks, Unclaimed
  <2>3. CASE p \notin Active
    <3>1. Counted' = Counted
      BY <1>1, <2>1, <2>3 DEF Counted
    <3> QED
      BY <1>1, <1>2, <2>1, <3>1, LookingKept DEF IInv
  <2> QED
    BY <2>2, <2>3
<1> QED
  BY <1>3, <1>4, <1>5

\* A percentage that rises after the completion, or falls at all, is a lapse.
LEMMA WriteLooks ==
    ASSUME IInv, RowsTellThePast, SomeoneLooks, NEW r \in Requests, WriteProgress(r)
    PROVE  SomeoneLooks'
<1> DEFINE p == requests[r].person
<1>1. /\ requests[r].pc = "progress" /\ p \in sessions /\ p \in People
      /\ requests[r].seen \in Nat /\ done[p] \in Nat
  BY DEF WriteProgress, IInv, RequestsAreBacked, TypeOK, RequestRecord
<1>2. UNCHANGED <<attested, completed, coverage_met>> /\ lapses \subseteq lapses'
  BY DEF WriteProgress, outcome
<1>3. \A s \in Requests : Looking(s) => Looking(s)'
  BY GoToMoves, OthersLook DEF WriteProgress, IInv, Looking, Steps
<1>4. Active' = Active
  <2>1. \A q \in People : status'[q] = IF q = p /\ status[p] = "invited"
                                         THEN "in_progress" ELSE status[q]
    BY DEF WriteProgress, IInv, TypeOK
  <2> QED
    BY <2>1 DEF Active
<1>5. \A q \in People : q # p => done'[q] = done[q]
  BY <1>1 DEF WriteProgress, IInv, TypeOK
<1>6. CASE p \notin Active
  <2>1. Counted' = Counted
    BY <1>2, <1>4, <1>5, <1>6 DEF Counted, Active
  <2> QED
    BY <1>2, <1>3, <1>4, <2>1, LookingKept DEF IInv
<1>7. CASE p \in Active /\ p \notin completed
  BY <1>2, <1>4, <1>7 DEF SomeoneLooks, Unclaimed
<1>8. CASE p \in completed /\ requests[r].seen = done[p]
  <2>1. done' = done
    BY <1>1, <1>8 DEF WriteProgress, IInv, TypeOK
  <2>2. Counted' = Counted
    BY <1>2, <1>4, <2>1 DEF Counted
  <2> QED
    BY <1>2, <1>3, <1>4, <2>2, LookingKept DEF IInv
<1>9. CASE p \in completed /\ requests[r].seen # done[p]
  <2>1. lapses' # {}
    BY <1>1, <1>9 DEF WriteProgress
  <2> QED
    BY <2>1 DEF SomeoneLooks, Unclaimed
<1> QED
  BY <1>6, <1>7, <1>8, <1>9

\* An opened link changes who takes part only if they were removed, which was a lapse.
LEMMA OpenedLooks ==
    ASSUME IInv, RowsTellThePast, SomeoneLooks, NEW r \in Requests, MarkOpened(r)
    PROVE  SomeoneLooks'
<1> DEFINE p == requests[r].person
<1>1. /\ requests[r].pc = "opening" /\ p \in People /\ status[p] # "none"
      /\ \A q \in People : status'[q] = IF q = p THEN "in_progress" ELSE status[q]
  BY DEF MarkOpened, IInv, RequestsAreBacked, RowsTellThePast, TypeOK
<1>2. UNCHANGED <<done, attested, completed, coverage_met, lapses>>
  BY DEF MarkOpened, outcome
<1>3. \A s \in Requests : Looking(s) => Looking(s)'
  BY <1>1, FinishMoves, OthersLook DEF MarkOpened, IInv, Looking
<1>4. CASE status[p] = "removed"
  BY <1>1, <1>2, <1>4 DEF RowsTellThePast, SomeoneLooks, Unclaimed
<1>5. CASE status[p] # "removed"
  <2>1. Active' = Active
    BY <1>1, <1>5 DEF Active
  <2>2. Counted' = Counted
    BY <1>2, <2>1 DEF Counted
  <2> QED
    BY <1>2, <1>3, <2>1, <2>2, LookingKept DEF IInv
<1> QED
  BY <1>4, <1>5

\* Who stamps a completion looks; who finds it stamped was not looking.
LEMMA MarkLooks ==
    ASSUME IInv, SomeoneLooks, NEW r \in Requests, MarkComplete(r)
    PROVE  SomeoneLooks'
<1>1. CASE requests[r].person \in completed /\ Finish(r) /\ UNCHANGED <<status, completed>>
  <2>1. UNCHANGED <<done, attested, coverage_met, lapses>>
    BY DEF MarkComplete, outcome
  <2>2. \A s \in Requests : Looking(s) => Looking(s)'
    BY <1>1, FinishMoves, OthersLook DEF MarkComplete, IInv, Looking
  <2> QED
    BY <1>1, <2>1, <2>2, SameRows DEF IInv
<1>2. CASE GoTo(r, "marked")
  <2>1. Looking(r)'
    BY <1>2, GoToMoves DEF IInv, Steps, Looking
  <2> QED
    BY <2>1 DEF SomeoneLooks
<1> QED
  BY <1>1, <1>2 DEF MarkComplete

\* A request that looks reads that nobody has claimed, and that coverage is met.
LEMMA LookerClaims ==
    ASSUME IInv, MetWasRead, SomeoneLooks, NEW r \in Requests,
           ReadEngagement(r) \/ CheckCoverage(r) \/ ClaimCoverage(r)
    PROVE  SomeoneLooks'
<1>1. CASE ReadEngagement(r)
  <2>1. UNCHANGED <<people, outcome, lapses>>
    BY <1>1 DEF ReadEngagement
  <2>2. \A s \in Requests : Looking(s) => Looking(s)'
    BY <1>1 DEF ReadEngagement, IInv, TypeOK, RequestRecord, Looking
  <2> QED
    BY <2>1, <2>2, SameRows DEF IInv, people, outcome
<1>2. CASE CheckCoverage(r)
  <2>1. UNCHANGED <<status, done, attested, completed, coverage_met, lapses>>
    BY <1>2 DEF CheckCoverage, people, outcome
  <2>2. Active' = Active /\ Counted' = Counted
    BY <2>1 DEF Active, Counted
  <2>3. CoverageIsMet' = CoverageIsMet
    BY <2>2 DEF CoverageIsMet
  <2>4. ASSUME Unclaimed' PROVE Looking(r)'
    <3>1. CoverageIsMet /\ ~ requests[r].met
      BY <2>1, <2>3, <2>4 DEF Unclaimed, MetWasRead
    <3>2. GoTo(r, "claiming")
      BY <1>2, <3>1 DEF CheckCoverage
    <3> QED
      BY <3>2, GoToMoves DEF IInv, Steps, Looking
  <2> QED
    BY <2>4 DEF SomeoneLooks
<1>3. CASE ClaimCoverage(r)
  BY <1>3 DEF ClaimCoverage, SomeoneLooks, Unclaimed
<1> QED
  BY <1>1, <1>2, <1>3

\* The buyer: who is invited has not completed, and a removal is a lapse.
LEMMA BuyerLooks ==
    ASSUME IInv, RowsTellThePast, SomeoneLooks, NEW p \in People, Invite(p) \/ Remove(p)
    PROVE  SomeoneLooks'
<1>1. CASE Invite(p)
  <2>1. p \notin completed /\ completed' = completed
    BY <1>1 DEF Invite, RowsTellThePast, IInv, TypeOK
  <2>2. p \in Active'
    BY <1>1 DEF Invite, Active, IInv, TypeOK
  <2> QED
    BY <2>1, <2>2 DEF SomeoneLooks, Unclaimed
<1>2. CASE Remove(p)
  BY <1>2 DEF Remove, SomeoneLooks, Unclaimed
<1> QED
  BY <1>1, <1>2

\* Every step that could meet coverage is a lapse or has somebody looking.
LEMMA NextLooks == IInv /\ RowsTellThePast /\ MetWasRead /\ SomeoneLooks /\ [Next]_vars
                     => SomeoneLooks'
<1> SUFFICES ASSUME IInv, RowsTellThePast, MetWasRead, SomeoneLooks, [Next]_vars
             PROVE  SomeoneLooks'
  OBVIOUS
<1>1. TypeOK
  BY DEF IInv
<1>2. ASSUME NEW r \in Requests, NEW p \in People, OpenLink(r, p) \/ Admit(r, p)
      PROVE  SomeoneLooks'
  <2>1. UNCHANGED <<status, done, attested, completed, coverage_met, lapses>>
    BY <1>2 DEF OpenLink, Admit, people, outcome
  <2>2. UNCHANGED requests \/ \E step \in Steps : Begin(r, p, step)
    BY <1>2 DEF OpenLink, Admit, Steps
  <2>3. \A s \in Requests : Looking(s) => Looking(s)'
    <3>1. CASE UNCHANGED requests
      BY <3>1 DEF Looking
    <3> QED
      BY <1>1, <2>2, <3>1, BeginMoves, OthersLook DEF Looking
  <2> QED
    BY <1>1, <2>1, <2>3, SameRows
<1>3. ASSUME NEW r \in Requests,
             \/ Save(r) \/ CountAnswers(r) \/ NextQuestion(r) \/ NotifyBuyer(r)
             \/ PartQueued(r) \/ StartPart(r)
      PROVE  SomeoneLooks'
  <2>1. UNCHANGED <<status, done, attested, completed, coverage_met, lapses>>
    BY <1>3 DEF Save, CountAnswers, NextQuestion, NotifyBuyer, PartQueued, StartPart,
                people, outcome
  <2>2. ~ Looking(r)
    BY <1>3 DEF Save, CountAnswers, NextQuestion, NotifyBuyer, PartQueued, StartPart, Looking
  <2>3. \A s \in Requests \ {r} : requests'[s] = requests[s]
    BY <1>1, <1>3 DEF Save, CountAnswers, NextQuestion, NotifyBuyer, PartQueued, StartPart,
                      GoTo, Finish, TypeOK
  <2> QED
    BY <1>1, <2>1, <2>2, <2>3, SameRows DEF Looking
<1>4. ASSUME NEW r \in Requests, ProgressFails(r) \/ Die(r)
      PROVE  SomeoneLooks'
  BY <1>4 DEF ProgressFails, Die, SomeoneLooks, Unclaimed
<1>5. ASSUME NEW r \in Requests, RequestStep(r)
      PROVE  SomeoneLooks'
  BY <1>3, <1>4, <1>5, OpenedLooks, SignLooks, WriteLooks, MarkLooks, LookerClaims
     DEF RequestStep
<1>6. CASE Lifecycle \/ UNCHANGED vars
  <2>1. UNCHANGED <<status, done, attested, completed, coverage_met, lapses, requests>>
    BY <1>6 DEF Lifecycle, vars, people, outcome
  <2> QED
    BY <1>1, <2>1, SameRows DEF Looking
<1> QED
  BY <1>2, <1>5, <1>6, BuyerLooks DEF Next

(***************************************************************************)
(* However the completions of several people overlap, the last to be       *)
(* stamped finds the coverage met and claims it, if it is met and nothing  *)
(* was lost on the way: no person, request, question or bracket excepted   *)
(* (on_respondent_complete, check_coverage).                               *)
(***************************************************************************)
THEOREM LastClaims == Spec => []LastCompletionClaims
<1> DEFINE LookInv == IInv /\ RowsTellThePast /\ MetWasRead /\ SomeoneLooks
<1>1. Init => LookInv
  BY InitIInv, InitLooks
<1>2. LookInv /\ [Next]_vars => LookInv'
  BY NextIInv, NextTellsThePast, NextReads, NextLooks
<1>3. LookInv => LastCompletionClaims
  BY DEF SomeoneLooks, Unclaimed, Looking, LastCompletionClaims
<1> QED
  BY <1>1, <1>2, <1>3, PTL DEF Spec

-----------------------------------------------------------------------------
\* Every step of a request is a step of the gate, or none.
LEMMA StepImplementsGate == IInv /\ [Next]_vars => [Gate!Next]_<<coverage_met, queued>>
<1> SUFFICES ASSUME IInv, [Next]_vars,
                    ~ UNCHANGED <<coverage_met, queued>>
             PROVE  Gate!Next
  OBVIOUS
<1>1. PICK r \in Requests : ClaimCoverage(r) \/ StartPart(r)
  BY DEF Next, vars, outcome, RequestStep, Invite, Remove, OpenLink, Admit, MarkOpened,
         SignAttestation, Save, CountAnswers, WriteProgress, ProgressFails, NextQuestion,
         MarkComplete, ReadEngagement, CheckCoverage, NotifyBuyer, PartQueued, Die,
         Lifecycle
<1>2. CASE ClaimCoverage(r)
  <2>1. ~ coverage_met
    BY <1>2 DEF ClaimCoverage, IInv, TypeOK
  <2> QED
    BY <1>2, <2>1 DEF ClaimCoverage, Gate!Next, Gate!Declare
<1>3. CASE StartPart(r)
  <2>1. /\ Starting(r)
        /\ coverage_met
        /\ requests[r].part \in DOMAIN Parts
        /\ \A i \in DOMAIN Parts : queued[i] = IF i < requests[r].part THEN 1 ELSE 0
    BY <1>3 DEF StartPart, Starting, IInv, TypeOK, ClaimHasOnePlace, PartsInOrder
  <2>2. queued[requests[r].part] = 0
    <3>1. requests[r].part \in Nat
      BY DEF IInv, TypeOK, RequestRecord
    <3> QED
      BY <2>1, <3>1
  <2>3. queued' = [queued EXCEPT ![requests[r].part] = 1] /\ UNCHANGED coverage_met
    BY <1>3, <2>2 DEF StartPart
  <2> QED
    BY <2>1, <2>3 DEF Gate!Next, Gate!Start
<1> QED
  BY <1>1, <1>2, <1>3

(***************************************************************************)
(* The requests implement the gate: one claim of the coverage, and after   *)
(* it each document at most once, in order (on_respondent_complete).       *)
(***************************************************************************)
THEOREM Refinement == Spec => GateSpec
<1>1. Init => Gate!Init
  BY DEF Init, Gate!Init
<1> QED
  BY <1>1, StepImplementsGate, Invariance, PTL DEF Spec, GateSpec, Gate!Spec

-----------------------------------------------------------------------------
(***************************************************************************)
(* The slots of a bracket (coverage.py, evaluate).                         *)
(***************************************************************************)
\* Any way to spend respondents on slots of their roles, each on one.
Filling(order, spent, counted, worksAs) ==
    /\ \A k \in DOMAIN order : spent[k] \subseteq {p \in counted : worksAs[p] \in order[k].roles}
    /\ \A j, k \in DOMAIN order : j # k => spent[j] \cap spent[k] = {}

\* An order in which the loop goes over the slots of a bracket.
OrderOf(order, slots) ==
    /\ order \in Seq(slots)
    /\ \A s \in slots : \E k \in DOMAIN order : order[k] = s
    /\ \A j, k \in DOMAIN order : order[j] = order[k] => j = k

\* Every slot needs a number of respondents.
LEMMA NeedsAreNumbers ==
  \A bracket \in DOMAIN REQUIREMENTS : \A s \in REQUIREMENTS[bracket].slots : s.need \in Nat
<1>1. \A s \in Officers : s.need \in Nat
  BY DEF Officers, Slot
<1> QED
  BY <1>1 DEF REQUIREMENTS, Requirement, Slot

\* Of the pool, nobody who fits a slot was spent on one before it.
LEMMA NobodyFittingIsSpent ==
  ASSUME NEW bracket \in DOMAIN REQUIREMENTS, NEW order,
         OrderOf(order, REQUIREMENTS[bracket].slots),
         NEW counted, NEW worksAs, NEW taken, GreedyFilling(order, taken, counted, worksAs),
         NEW k \in DOMAIN order
  PROVE  {p \in counted \ UNION {taken[j] : j \in 1 .. (k - 1)} : worksAs[p] \in order[k].roles}
           = {p \in counted : worksAs[p] \in order[k].roles}
<1>1. DOMAIN order = 1 .. Len(order) /\ Len(order) \in Nat
  BY DEF OrderOf
<1>2. ASSUME NEW j \in 1 .. (k - 1), NEW p \in taken[j]
      PROVE  worksAs[p] \notin order[k].roles
  <2>1. j \in DOMAIN order /\ j # k
    BY <1>1
  <2>2. worksAs[p] \in order[j].roles
    BY <2>1 DEF GreedyFilling
  <2>3. order[j].roles \cap order[k].roles = {}
    BY <2>1, SlotsAreDisjoint DEF OrderOf
  <2> QED
    BY <2>2, <2>3
<1> QED
  BY <1>2

(***************************************************************************)
(* The greedy loop finds a gap exactly where too few respondents have one  *)
(* of the roles of a slot, and leaves one only when every other way to     *)
(* spend the respondents leaves one, in whatever order it takes the slots: *)
(* nobody is spent whom a later slot needs (coverage.py, evaluate).        *)
(***************************************************************************)
THEOREM GreedyIsEnough ==
  ASSUME NEW bracket \in DOMAIN REQUIREMENTS, NEW order,
         OrderOf(order, REQUIREMENTS[bracket].slots),
         NEW counted, IsFiniteSet(counted), NEW worksAs,
         NEW taken, GreedyFilling(order, taken, counted, worksAs)
  PROVE  /\ NoGaps(order, taken) <=> RolesAreFilled(REQUIREMENTS[bracket].slots, counted, worksAs)
         /\ \A spent : Filling(order, spent, counted, worksAs) /\ NoGaps(order, spent)
                        => NoGaps(order, taken)
<1> DEFINE fit(k) == {p \in counted : worksAs[p] \in order[k].roles}
<1>1. ASSUME NEW k \in DOMAIN order
      PROVE  /\ IsFiniteSet(fit(k)) /\ Cardinality(fit(k)) \in Nat
             /\ \A T \in SUBSET fit(k) : /\ Cardinality(T) \in Nat
                                         /\ Cardinality(T) <= Cardinality(fit(k))
  <2>1. fit(k) \subseteq counted
    OBVIOUS
  <2> HIDE DEF fit
  <2> QED
    BY <2>1, FS_Subset, FS_CardinalityType
<1>2. ASSUME NEW k \in DOMAIN order
      PROVE  Cardinality(taken[k]) >= order[k].need <=> Cardinality(fit(k)) >= order[k].need
  <2>1. /\ taken[k] \subseteq fit(k)
        /\ \/ Cardinality(taken[k]) = order[k].need
           \/ Cardinality(taken[k]) < order[k].need /\ taken[k] = fit(k)
    BY NobodyFittingIsSpent DEF GreedyFilling
  <2>2. order[k].need \in Nat
    BY NeedsAreNumbers DEF OrderOf
  <2> HIDE DEF fit
  <2> QED
    BY <1>1, <2>1, <2>2
<1>3. NoGaps(order, taken) <=> \A k \in DOMAIN order : Cardinality(fit(k)) >= order[k].need
  <2> HIDE DEF fit
  <2> QED
    BY <1>2 DEF NoGaps
<1>4. RolesAreFilled(REQUIREMENTS[bracket].slots, counted, worksAs)
        <=> \A k \in DOMAIN order : Cardinality(fit(k)) >= order[k].need
  BY DEF RolesAreFilled, OrderOf
<1>5. ASSUME NEW spent, Filling(order, spent, counted, worksAs), NoGaps(order, spent),
             NEW k \in DOMAIN order
      PROVE  Cardinality(fit(k)) >= order[k].need
  <2>1. spent[k] \in SUBSET fit(k)
    BY <1>5 DEF Filling
  <2>2. Cardinality(spent[k]) >= order[k].need /\ order[k].need \in Nat
    BY <1>5, NeedsAreNumbers DEF NoGaps, OrderOf
  <2> HIDE DEF fit
  <2> QED
    BY <1>1, <2>1, <2>2
<1> QED
  BY <1>3, <1>4, <1>5
=============================================================================
