----------------------- MODULE SemanticSessionProofs -----------------------
(***************************************************************************)
(* Proofs about SemanticSession, for any exports, versions, sizes of the   *)
(* helper's index and numbers of tsconfig files.                           *)
(***************************************************************************)
EXTENDS SemanticSession, FiniteSetTheorems, TLAPS

-----------------------------------------------------------------------------
(* Batches and the ids in them *)

(* A batch ends where the queries do, or before. *)
LEMMA BatchInside ==
    ASSUME TypeOK
    PROVE  BatchEnd \in Nat /\ BatchEnd <= Len(queries)
<1>1. /\ Len(queries) \in Nat
      /\ next \in Nat \ {0}
      /\ env.indexed \in Nat
  <2>1. env.indexed \in FilesIndexed
    BY DEF TypeOK, Environments
  <2>2. FilesIndexed \subseteq Nat
    BY SessionAssumption
  <2>3. Len(queries) \in Nat /\ next \in Nat \ {0}
    BY DEF TypeOK
  <2> QED
    BY <2>1, <2>2, <2>3
<1>2. BatchSize \in Nat \ {0}
  BY <1>1 DEF BatchSize
<1> QED
  BY <1>1, <1>2 DEF BatchEnd

(* The first queries have their ids for positions, up to the first one     *)
(* whose path is lost.                                                     *)
LEMMA FaithfulPosition ==
    ASSUME TypeOK, NEW k \in 1..Len(queries), Faithful(k)
    PROVE  Cardinality({i \in 1..k : i \in {j \in 1..Len(queries) :
                            queries[j] \notin env.lossy}}) = k
<1>1. k \in Nat /\ k > 0 /\ Len(queries) \in Nat /\ k <= Len(queries)
  BY DEF TypeOK
<1>2. {i \in 1..k : i \in {j \in 1..Len(queries) :
                            queries[j] \notin env.lossy}} = 1..k
  BY <1>1 DEF Faithful
<1>3. Cardinality(1..k) = k
  <2>1. 1 \in Int /\ k \in Int /\ ~(1 > k)
    BY <1>1
  <2>2. Cardinality(1..k) = k - 1 + 1
    BY <2>1, FS_Interval
  <2> QED
    BY <1>1, <2>2
<1> QED
  BY <1>2, <1>3

Distinct == \A i, j \in 1..Len(queries) : queries[i] = queries[j] => i = j

(* ... so an answer is about such a query exactly when it has its id. *)
LEMMA FaithfulAnswer ==
    ASSUME TypeOK, Distinct, NEW k \in 1..Len(queries), Faithful(k), NEW id
    PROVE  queries[k] \in AskedOf(queries, id) <=> id = k
<1> DEFINE index == {j \in 1..Len(queries) : queries[j] \notin env.lossy}
           position(j) == Cardinality({i \in 1..j : i \in index})
<1>1. position(k) = k
  BY FaithfulPosition
<1>2. k \in index
  BY DEF Faithful, TypeOK
<1>3. AskedOf(queries, id) =
        {queries[j] : j \in {i \in index : position(i) = id}}
  BY DEF AskedOf
<1> HIDE DEF position
<1>4. ASSUME queries[k] \in AskedOf(queries, id)
      PROVE  id = k
  <2>1. PICK j \in index : position(j) = id /\ queries[j] = queries[k]
    BY <1>3, <1>4
  <2>2. j = k
    BY <2>1 DEF Distinct
  <2> QED
    BY <1>1, <2>1, <2>2
<1>5. ASSUME id = k
      PROVE  queries[k] \in AskedOf(queries, id)
  BY <1>1, <1>2, <1>3, <1>5
<1> QED
  BY <1>4, <1>5

(* Whatever an answer is about was asked. *)
LEMMA AskedIsDead ==
    ASSUME TypeOK, NEW id
    PROVE  AskedOf(queries, id) \subseteq Dead
<1> DEFINE index == {j \in 1..Len(queries) : queries[j] \notin env.lossy}
           position(j) == Cardinality({i \in 1..j : i \in index})
<1>1. AskedOf(queries, id) =
        {queries[j] : j \in {i \in index : position(i) = id}}
  BY DEF AskedOf
<1>2. \A j \in index : queries[j] \in Dead
  BY DEF TypeOK
<1> HIDE DEF position
<1> QED
  BY <1>1, <1>2

(* An order of the exports holds each once. *)
LEMMA OrderIsDistinct ==
    ASSUME SessionAssumption, NEW order, CollectQueries(order)
    PROVE  /\ order \in Seq(Dead)
           /\ \A i, j \in 1..Len(order) : order[i] = order[j] => i = j
<1> DEFINE n == Cardinality(Dead)
<1>1. IsFiniteSet(Dead)
  BY FS_Subset DEF SessionAssumption, Dead
<1>2. n \in Nat
  BY <1>1, FS_CardinalityType
<1>3. order \in [1..n -> Dead] /\ \A d \in Dead : \E i \in 1..n : order[i] = d
  BY DEF CollectQueries, ToSet
<1>4. order \in Surjection(1..n, Dead)
  BY <1>3 DEF Surjection
<1>5. IsFiniteSet(1..n) /\ Cardinality(1..n) = n
  BY <1>2, FS_Interval
<1>6. order \in Injection(1..n, Dead)
  BY <1>4, <1>5, FS_SurjSameCardinalityImpliesInj
<1>7. order \in Seq(Dead) /\ Len(order) = n
  BY <1>2, <1>3
<1> QED
  BY <1>6, <1>7 DEF Injection, IsInjective

-----------------------------------------------------------------------------
(* Types *)

(* Nothing has been asked or marked before the helper is ready. *)
Untouched == client \in {"discover", "handshake"} =>
                queries = <<>> /\ live = LiveBefore

TypeInv == TypeOK /\ Untouched

LEMMA TypeInit == Init => TypeInv
  BY SessionAssumption DEF Init, TypeInv, TypeOK, Untouched

(* What a step of the helper leaves alone *)
LEMMA HelperStep ==
    ASSUME TypeInv, Helper
    PROVE  UNCHANGED <<clientVars, env>> /\ helper' \in
                {"exited", "indexing", "loop", "writing"}
  BY DEF Helper, ReadHandshake, SendReady, LeaveLoop, WriteFails, AnswerBatch,
         Send, helperUnchanged

LEMMA TypeStep == TypeInv /\ [Next]_vars => TypeInv'
<1> SUFFICES ASSUME TypeInv, [Next]_vars
             PROVE  TypeInv'
  OBVIOUS
<1> USE DEF TypeInv
<1>0. Dead \subseteq Exports
  BY DEF Dead
<1>1. CASE Spawn
  BY <1>1 DEF Spawn, TypeOK, Untouched
<1>2. CASE HandshakeLost \/ AnswerLost \/ Wait \/ Shutdown \/ Killed
  BY <1>2 DEF HandshakeLost, AnswerLost, Wait, Shutdown, Killed, TypeOK, Untouched
<1>3. ASSUME NEW order \in Orders, ReadReady(order)
      PROVE  TypeInv'
  <2>1. queries = <<>> /\ answered = {}
    BY <1>3 DEF ReadReady, Untouched, TypeOK
  <2>2. order \in Seq(Dead)
    BY <1>3, OrderIsDistinct, SessionAssumption DEF ReadReady
  <2>3. queries' \in Seq(Dead) /\ answered' = {}
    <3>1. queries' = queries \/ queries' = order
      BY <1>3 DEF ReadReady
    <3>2. queries \in Seq(Dead)
      BY DEF TypeOK
    <3>3. answered' = {}
      BY <1>3, <2>1 DEF ReadReady
    <3> QED
      BY <2>2, <3>1, <3>2, <3>3
  <2>4. client' \in {"ended", "batching", "leaving"}
    BY <1>3 DEF ReadReady
  <2> QED
    BY <1>3, <2>3, <2>4 DEF ReadReady, TypeOK, Untouched
<1>4. CASE SendBatch
  BY <1>4 DEF SendBatch, TypeOK, Untouched
<1>5. CASE ReadAnswer
  <2>1. client' \in {"leaving", "batching"}
    BY <1>5 DEF ReadAnswer
  <2>2. CASE client' = "leaving"
    BY <1>5, <2>2 DEF ReadAnswer, TypeOK, Untouched
  <2>3. CASE client' = "batching"
    <3> DEFINE marks == UNION {AskedOf(queries, id) : id \in Head(toClient).payload}
    <3>1. /\ live' = live \cup marks
          /\ answered' = answered \cup (next..BatchEnd)
          /\ next' = BatchEnd + 1
          /\ UNCHANGED <<queries, helper, env>>
      BY <1>5, <2>3 DEF ReadAnswer
    <3>2. marks \subseteq Dead
      BY AskedIsDead
    <3>3. BatchEnd \in Nat /\ BatchEnd <= Len(queries)
      BY BatchInside
    <3>4. next..BatchEnd \subseteq 1..Len(queries)
      BY <3>3 DEF TypeOK
    <3> HIDE DEF marks
    <3>5. LiveBefore \subseteq live' /\ live' \subseteq Exports
      BY <1>0, <3>1, <3>2 DEF TypeOK
    <3>6. next' \in Nat \ {0}
      BY <3>1, <3>3
    <3> QED
      BY <2>3, <3>1, <3>4, <3>5, <3>6 DEF TypeOK, Untouched
  <2> QED
    BY <2>1, <2>2, <2>3
<1>6. CASE Helper
  <2>1. UNCHANGED <<clientVars, env>> /\ helper' \in
                {"exited", "indexing", "loop", "writing"}
    BY <1>6, HelperStep
  <2> QED
    BY <2>1 DEF clientVars, TypeOK, Untouched
<1>7. CASE Dies \/ Hangs
  BY <1>7 DEF Dies, Hangs, helperUnchanged, clientVars, TypeOK, Untouched
<1>8. CASE UNCHANGED vars
  BY <1>8 DEF vars, clientVars, TypeOK, Untouched
<1> QED
  BY <1>1, <1>2, <1>3, <1>4, <1>5, <1>6, <1>7, <1>8 DEF Next, Client

(* The state of a build's use of the helper has its types.  Code: the      *)
(* semantic part of build_graph_with_options (build.rs:659).               *)
THEOREM TypeCorrect == Spec => []TypeOK
<1>1. TypeInv => TypeOK
  BY DEF TypeInv
<1> QED
  BY <1>1, TypeInit, TypeStep, PTL DEF Spec

-----------------------------------------------------------------------------
(* The pipes *)

(* What the pipes hold until the handshake is over: one message at most,   *)
(* and none that the helper could take for a batch.                        *)
HandshakePipes ==
    /\ client = "discover" =>
        helper = "absent" /\ toHelper = <<>> /\ toClient = <<>>
    /\ client = "handshake" =>
        /\ helper \notin {"absent", "writing"}
        /\ helper \in {"start", "indexing"} => toClient = <<>>
        /\ helper = "start" => toHelper = <<Message("Query", ProtocolVersion)>>
        /\ helper \in {"indexing", "loop"} => toHelper = <<>>
        /\ toClient = <<>> \/ toClient = <<Head(toClient)>>

FoundInBatch == {id \in next..BatchEnd : queries[id] \in env.references}

(* ... and while batches are sent: none is under way when the next is      *)
(* sent, and the answer that arrives is the one to the batch of the client.*)
BatchPipes ==
    /\ client \in {"batching", "reading"} =>
        helper \notin {"absent", "start", "indexing"}
    /\ client = "batching" =>
        toClient = <<>> /\ (helper = "loop" => toHelper = <<>>)
    /\ client = "reading" =>
        /\ \/ toClient = <<>>
           \/ /\ toClient = <<Head(toClient)>>
              /\ Head(toClient).type = "Response" =>
                    Head(toClient).payload = FoundInBatch
        /\ helper = "loop" =>
            \/ toHelper = <<>>
            \/ toHelper = <<Message("Query", next..BatchEnd)>> /\ toClient = <<>>

PipesInv == TypeInv /\ Distinct /\ HandshakePipes /\ BatchPipes

LEMMA PipesInit == Init => PipesInv
  BY TypeInit DEF Init, PipesInv, Distinct, HandshakePipes, BatchPipes

(* The queries stay what they are, or become an order of the exports. *)
LEMMA DistinctStep == TypeInv /\ Distinct /\ [Next]_vars => Distinct'
<1> SUFFICES ASSUME TypeInv, Distinct, [Next]_vars
             PROVE  Distinct'
  OBVIOUS
<1>1. ASSUME NEW order \in Orders, ReadReady(order)
      PROVE  Distinct'
  <2>1. queries' = queries \/ queries' = order
    BY <1>1 DEF ReadReady
  <2>2. \A i, j \in 1..Len(order) : order[i] = order[j] => i = j
    BY <1>1, OrderIsDistinct, SessionAssumption DEF ReadReady
  <2> QED
    BY <2>1, <2>2 DEF Distinct
<1>2. CASE UNCHANGED queries
  BY <1>2 DEF Distinct
<1>3. CASE Helper
  BY <1>2, <1>3, HelperStep DEF clientVars
<1>4. CASE \/ Spawn \/ HandshakeLost \/ SendBatch \/ ReadAnswer
           \/ AnswerLost \/ Shutdown \/ Wait \/ Dies \/ Hangs \/ Killed
           \/ UNCHANGED vars
  BY <1>2, <1>4 DEF Spawn, HandshakeLost, SendBatch, ReadAnswer, AnswerLost,
     Shutdown, Wait, Dies, Hangs, Killed, helperUnchanged, clientVars, vars
<1> QED
  BY <1>1, <1>3, <1>4 DEF Next, Client

(* Steps after which the build is not, or no more, in a phase in which it  *)
(* reads                                                                   *)
LEMMA PipesOver ==
    ASSUME client' \in {"leaving", "waiting", "ended", "killed"}
    PROVE  HandshakePipes' /\ BatchPipes'
  BY DEF HandshakePipes, BatchPipes

(* A pipe with one message *)
LEMMA OneMessage ==
    ASSUME NEW m
    PROVE  /\ Head(<<m>>) = m
           /\ Tail(<<m>>) = <<>>
           /\ Append(<<>>, m) = <<m>>
           /\ <<m>> # <<>>
  OBVIOUS

(* A step that leaves the pipes alone and stops the helper, or nothing *)
LEMMA PipesKept ==
    ASSUME HandshakePipes, BatchPipes, UNCHANGED <<clientVars, env>>,
           UNCHANGED <<toHelper, toClient>>,
           \/ UNCHANGED helper
           \/ helper # "absent" /\ helper' \in {"exited", "hung"}
    PROVE  HandshakePipes' /\ BatchPipes'
<1>1. UNCHANGED <<BatchEnd, FoundInBatch>>
  BY DEF clientVars, BatchEnd, BatchSize, FoundInBatch
<1> QED
  BY <1>1 DEF clientVars, HandshakePipes, BatchPipes

LEMMA PipesStep == PipesInv /\ [Next]_vars => HandshakePipes' /\ BatchPipes'
<1> SUFFICES ASSUME PipesInv, [Next]_vars
             PROVE  HandshakePipes' /\ BatchPipes'
  OBVIOUS
<1> DEFINE Over == client' \in {"leaving", "waiting", "ended", "killed"}
<1>t. TypeOK
  BY DEF PipesInv, TypeInv
<1>h. HandshakePipes /\ BatchPipes
  BY DEF PipesInv
<1>1. CASE Spawn
  <2>1. CASE env.installed = "yes"
    BY <1>1, <1>h, <2>1 DEF Spawn, HandshakePipes, BatchPipes
  <2>2. CASE env.installed # "yes"
    BY <1>1, <2>2, PipesOver DEF Spawn
  <2> QED
    BY <2>1, <2>2
<1>2. CASE HandshakeLost \/ AnswerLost \/ Wait \/ Shutdown \/ Killed
  <2>1. Over
    BY <1>2 DEF HandshakeLost, AnswerLost, Wait, Shutdown, Killed
  <2> QED
    BY <2>1, PipesOver
<1>3. ASSUME NEW order \in Orders, ReadReady(order)
      PROVE  HandshakePipes' /\ BatchPipes'
  <2>1. CASE client' = "batching"
    <3>1. toClient = <<Head(toClient)>> /\ toClient # <<>>
      BY <1>3, <1>h DEF ReadReady, HandshakePipes
    <3>2. toClient' = <<>>
      BY <1>3, <3>1 DEF ReadReady
    <3>3. helper \notin {"absent", "start", "indexing"}
      BY <1>3, <1>h, <1>t, <3>1 DEF ReadReady, HandshakePipes, TypeOK
    <3> QED
      BY <1>3, <1>h, <2>1, <3>2, <3>3 DEF ReadReady, HandshakePipes, BatchPipes
  <2>2. CASE client' # "batching"
    BY <1>3, <2>2, PipesOver DEF ReadReady
  <2> QED
    BY <2>1, <2>2
<1>4. CASE SendBatch
  <2>1. CASE client' = "reading"
    <3>1. /\ client = "batching"
          /\ toHelper' = Append(toHelper, Message("Query", next..BatchEnd))
          /\ UNCHANGED <<queries, next, helper, toClient, env>>
      BY <1>4, <2>1 DEF SendBatch
    <3>2. toClient' = <<>> /\ (helper = "loop" => toHelper = <<>>)
      BY <1>h, <3>1 DEF BatchPipes
    <3>3. UNCHANGED BatchEnd
      BY <3>1 DEF BatchEnd, BatchSize
    <3>4. helper = "loop" => toHelper' = <<Message("Query", next..BatchEnd)>>
      BY <3>1, <3>2
    <3>5. Message("Query", next..BatchEnd)' = Message("Query", next..BatchEnd)
      BY <3>1, <3>3 DEF Message
    <3> QED
      BY <1>h, <2>1, <3>1, <3>2, <3>3, <3>4, <3>5 DEF BatchPipes, HandshakePipes
  <2>2. CASE client' # "reading"
    BY <1>4, <2>2, PipesOver DEF SendBatch
  <2> QED
    BY <2>1, <2>2
<1>5. CASE ReadAnswer
  <2>1. CASE client' = "batching"
    <3>1. /\ client = "reading" /\ toClient # <<>>
          /\ toClient' = Tail(toClient)
          /\ UNCHANGED <<helper, toHelper>>
      BY <1>5 DEF ReadAnswer
    <3>2. /\ toClient = <<Head(toClient)>>
          /\ helper = "loop" => toHelper = <<>>
          /\ helper \notin {"absent", "start", "indexing"}
      BY <1>h, <3>1 DEF BatchPipes
    <3>3. toClient' = <<>>
      BY <3>1, <3>2, OneMessage
    <3> QED
      BY <2>1, <3>1, <3>2, <3>3 DEF BatchPipes, HandshakePipes
  <2>2. CASE client' # "batching"
    BY <1>5, <2>2, PipesOver DEF ReadAnswer
  <2> QED
    BY <2>1, <2>2
<1>6. CASE UNCHANGED vars
  BY <1>6, <1>h, PipesKept DEF vars
<1>7. CASE Dies \/ Hangs \/ LeaveLoop \/ WriteFails
  BY <1>7, <1>h, PipesKept
     DEF Dies, Hangs, LeaveLoop, WriteFails, helperUnchanged
<1>8. CASE ReadHandshake \/ SendReady
  <2>1. UNCHANGED <<clientVars, env>> /\ helper \in {"start", "indexing"}
    BY <1>8 DEF ReadHandshake, SendReady, helperUnchanged
  <2>2. CASE client # "handshake"
    <3>1. client \in {"leaving", "waiting", "ended", "killed"}
      BY <1>h, <1>t, <2>1, <2>2 DEF TypeOK, HandshakePipes, BatchPipes
    <3> QED
      BY <2>1, <3>1, PipesOver DEF clientVars
  <2>3. CASE client = "handshake"
    <3>1. toClient = <<>> /\ ~Closed
      BY <1>h, <2>1, <2>3 DEF HandshakePipes, Closed
    <3>2. toClient' = <<>> \/ toClient' = <<Head(toClient')>>
      <4>1. \/ toClient' = <<>>
            \/ \E m : toClient' = Append(<<>>, m)
        BY <1>8, <3>1 DEF ReadHandshake, SendReady, Send
      <4> QED
        BY <4>1, OneMessage
    <3>3. CASE ReadHandshake
      <4>1. toHelper' = <<>>
        <5>1. toHelper = <<Message("Query", ProtocolVersion)>>
          BY <1>h, <2>3, <3>3 DEF ReadHandshake, HandshakePipes
        <5>2. toHelper' = Tail(toHelper)
          BY <3>3 DEF ReadHandshake
        <5> QED
          BY <5>1, <5>2, OneMessage
      <4>2. \/ helper' = "exited"
            \/ helper' = "indexing" /\ toClient' = <<>>
        BY <3>1, <3>3 DEF ReadHandshake, Send
      <4> QED
        BY <2>1, <2>3, <3>2, <4>1, <4>2 DEF clientVars, HandshakePipes, BatchPipes
    <3>4. CASE SendReady
      <4>1. toHelper' = <<>> /\ helper' = "loop"
        BY <1>h, <2>3, <3>1, <3>4 DEF SendReady, Send, HandshakePipes
      <4> QED
        BY <2>1, <2>3, <3>2, <4>1 DEF clientVars, HandshakePipes, BatchPipes
    <3> QED
      BY <1>8, <3>3, <3>4
  <2> QED
    BY <2>2, <2>3
<1>9. ASSUME NEW large \in BOOLEAN, AnswerBatch(large)
      PROVE  HandshakePipes' /\ BatchPipes'
  <2>1. UNCHANGED <<clientVars, env>> /\ helper = "loop" /\ toHelper # <<>>
    BY <1>9 DEF AnswerBatch, helperUnchanged
  <2>2. CASE client # "reading"
    <3>1. client \in {"leaving", "waiting", "ended", "killed"}
      BY <1>h, <1>t, <2>1, <2>2 DEF TypeOK, HandshakePipes, BatchPipes
    <3> QED
      BY <2>1, <3>1, PipesOver DEF clientVars
  <2>3. CASE client = "reading"
    <3>1. toHelper = <<Message("Query", next..BatchEnd)>> /\ toClient = <<>>
      BY <1>h, <2>1, <2>3 DEF BatchPipes
    <3>2. Head(toHelper).payload = next..BatchEnd /\ Tail(toHelper) = <<>>
      BY <3>1 DEF Message
    <3>3. {id \in Head(toHelper).payload : queries[id] \in env.references}
            = FoundInBatch
      BY <3>2 DEF FoundInBatch
    <3>4. ~Closed
      BY <2>3 DEF Closed
    <3>5. /\ toHelper' = <<>>
          /\ helper' \in {"writing", "loop"}
          /\ \/ toClient' = Append(toClient, TooLarge)
             \/ toClient' = Append(toClient, Message("Response", FoundInBatch))
      BY <1>9, <3>2, <3>3, <3>4 DEF AnswerBatch, Send
    <3>6. /\ toClient' = <<Head(toClient')>>
          /\ Head(toClient').type = "Response" =>
                Head(toClient').payload = FoundInBatch
      <4> DEFINE response == Message("Response", FoundInBatch)
      <4>1. toClient' = <<TooLarge>> \/ toClient' = <<response>>
        BY <3>1, <3>5, OneMessage
      <4>2. /\ TooLarge.type # "Response"
            /\ response.payload = FoundInBatch
        BY DEF TooLarge, Message
      <4> HIDE DEF response
      <4> QED
        BY <4>1, <4>2, OneMessage
    <3>7. UNCHANGED FoundInBatch
      BY <2>1 DEF clientVars, FoundInBatch, BatchEnd, BatchSize
    <3> QED
      BY <2>1, <2>3, <3>5, <3>6, <3>7 DEF clientVars, HandshakePipes, BatchPipes
  <2> QED
    BY <2>2, <2>3
<1> QED
  BY <1>1, <1>2, <1>3, <1>4, <1>5, <1>6, <1>7, <1>8, <1>9
     DEF Next, Client, Helper

-----------------------------------------------------------------------------
(* The marks *)

MarksInv == PipesInv /\ MarksAreExact

LEMMA MarksInit == Init => MarksInv
  BY PipesInit DEF Init, MarksInv, MarksAreExact

(* What an answer marks, of the queries before the first lost path *)
LEMMA AnswerMarks ==
    ASSUME MarksInv, ReadAnswer, client' = "batching",
           NEW k \in 1..Len(queries), Faithful(k)
    PROVE  /\ queries[k] \in live' <=> queries[k] \in live \/ k \in FoundInBatch
           /\ k \in answered' <=> k \in answered \/ k \in next..BatchEnd
<1> USE DEF MarksInv, PipesInv, TypeInv
<1>1. /\ client = "reading" /\ toClient # <<>>
      /\ Head(toClient).type = "Response"
      /\ live' = live \cup UNION {AskedOf(queries, id) :
                                    id \in Head(toClient).payload}
      /\ answered' = answered \cup (next..BatchEnd)
  BY DEF ReadAnswer
<1>2. Head(toClient).payload = FoundInBatch
  BY <1>1 DEF BatchPipes
<1>3. queries[k] \in live' <=>
        \/ queries[k] \in live
        \/ \E id \in FoundInBatch : queries[k] \in AskedOf(queries, id)
  BY <1>1, <1>2
<1>4. \A id : queries[k] \in AskedOf(queries, id) <=> id = k
  BY FaithfulAnswer
<1> QED
  BY <1>1, <1>3, <1>4

LEMMA MarksStep == MarksInv /\ [Next]_vars => MarksAreExact'
<1> SUFFICES ASSUME MarksInv, [Next]_vars
             PROVE  MarksAreExact'
  OBVIOUS
<1>t. TypeOK /\ Untouched /\ MarksAreExact
  BY DEF MarksInv, PipesInv, TypeInv
<1>d. DOMAIN queries = 1..Len(queries)
  BY <1>t DEF TypeOK
<1>1. CASE UNCHANGED <<queries, live, answered, env>>
  BY <1>1, <1>t DEF MarksAreExact, Faithful
<1>2. ASSUME NEW order \in Orders, ReadReady(order)
      PROVE  MarksAreExact'
  <2>1. queries = <<>> /\ live' = LiveBefore /\ answered' = {}
    BY <1>2, <1>t DEF ReadReady, Untouched, TypeOK
  <2>2. \A id \in DOMAIN queries' : queries'[id] \in Dead
    <3>1. queries' = queries \/ queries' = order
      BY <1>2 DEF ReadReady
    <3>2. order \in Seq(Dead)
      BY <1>2, OrderIsDistinct, SessionAssumption DEF ReadReady
    <3> QED
      BY <2>1, <3>1, <3>2
  <2> QED
    BY <2>1, <2>2 DEF MarksAreExact, Dead
<1>3. CASE ReadAnswer
  <2>1. CASE client' = "batching"
    <3>1. UNCHANGED <<queries, env>>
      BY <1>3 DEF ReadAnswer
    <3>2. ASSUME NEW k \in DOMAIN queries, Faithful(k)
          PROVE  queries[k] \in live' <=>
                    k \in answered' /\ queries[k] \in env.references
      <4>1. k \in 1..Len(queries)
        BY <1>d
      <4>2. queries[k] \in live <=> k \in answered /\ queries[k] \in env.references
        BY <1>t, <3>2 DEF MarksAreExact
      <4>3. /\ queries[k] \in live' <=> queries[k] \in live \/ k \in FoundInBatch
            /\ k \in answered' <=> k \in answered \/ k \in next..BatchEnd
        BY <1>3, <2>1, <3>2, <4>1, AnswerMarks
      <4> QED
        BY <4>2, <4>3 DEF FoundInBatch
    <3> QED
      BY <3>1, <3>2 DEF MarksAreExact, Faithful
  <2>2. CASE client' # "batching"
    BY <1>1, <1>3, <2>2 DEF ReadAnswer
  <2> QED
    BY <2>1, <2>2
<1>4. CASE Helper
  BY <1>1, <1>4, HelperStep DEF clientVars, MarksInv, PipesInv
<1>5. CASE \/ Spawn \/ HandshakeLost \/ SendBatch \/ AnswerLost \/ Shutdown
           \/ Wait \/ Dies \/ Hangs \/ Killed \/ UNCHANGED vars
  BY <1>1, <1>5 DEF Spawn, HandshakeLost, SendBatch, AnswerLost, Shutdown,
     Wait, Dies, Hangs, Killed, helperUnchanged, clientVars, vars
<1> QED
  BY <1>2, <1>3, <1>4, <1>5 DEF Next, Client

LEMMA MarksInvStep == MarksInv /\ [Next]_vars => MarksInv'
<1> SUFFICES ASSUME MarksInv, [Next]_vars
             PROVE  MarksInv'
  OBVIOUS
<1>1. TypeInv' /\ Distinct'
  BY TypeStep, DistinctStep DEF MarksInv, PipesInv
<1>2. HandshakePipes' /\ BatchPipes'
  BY PipesStep DEF MarksInv
<1> QED
  BY <1>1, <1>2, MarksStep DEF MarksInv, PipesInv

(* An export that a query names is live after the refinement exactly when  *)
(* its batch was answered with a reference, whatever happens to the        *)
(* helper in between.  Code: the loop over batches (build.rs:746).         *)
THEOREM MarksCorrect == Spec => []MarksAreExact
<1>1. MarksInv => MarksAreExact
  BY DEF MarksInv
<1> QED
  BY <1>1, MarksInit, MarksInvStep, PTL DEF Spec

(* No batch is sent before the one before it was read and answered: the    *)
(* pipes hold one message at most, and answers need no number of a batch.  *)
(* Code: SemanticClient::query (lib.rs:221).                               *)
OneBatchUnderWay ==
    client = "batching" =>
        toClient = <<>> /\ (helper = "loop" => toHelper = <<>>)

THEOREM OneBatchCorrect == Spec => []OneBatchUnderWay
<1>1. MarksInv => OneBatchUnderWay
  BY DEF MarksInv, PipesInv, BatchPipes, OneBatchUnderWay
<1> QED
  BY <1>1, MarksInit, MarksInvStep, PTL DEF Spec

-----------------------------------------------------------------------------
(* The promise to the build *)

May == IF env.lossy = {} THEN env.references ELSE Dead

(* What an answer marks, the helper has references to or no path tells. *)
LEMMA AnswerAllowed ==
    ASSUME MarksInv, ReadAnswer, client' = "batching"
    PROVE  UNION {AskedOf(queries, id) : id \in Head(toClient).payload}
                \subseteq May
<1> USE DEF MarksInv, PipesInv, TypeInv
<1>1. CASE env.lossy # {}
  BY <1>1, AskedIsDead DEF May
<1>2. CASE env.lossy = {}
  <2>1. Head(toClient).payload = FoundInBatch
    BY DEF ReadAnswer, BatchPipes
  <2>2. ASSUME NEW id \in FoundInBatch, NEW e \in AskedOf(queries, id)
        PROVE  e \in env.references
    <3>1. PICK k \in 1..Len(queries) : e = queries[k]
      BY DEF AskedOf
    <3>2. Faithful(k)
      BY <1>2 DEF Faithful
    <3>3. id = k
      BY <3>1, <3>2, FaithfulAnswer
    <3> QED
      BY <3>1, <3>3 DEF FoundInBatch
  <2> QED
    BY <1>2, <2>1, <2>2 DEF May
<1> QED
  BY <1>1, <1>2

LEMMA RefinementStep ==
    MarksInv /\ [Next]_vars =>
        [Abstract!Next]_<<live, May, client = "ended">>
<1> SUFFICES ASSUME MarksInv, [Next]_vars
             PROVE  \/ UNCHANGED <<live, May, client = "ended">>
                    \/ Abstract!Next
  BY DEF May
<1>m. UNCHANGED env => UNCHANGED May
  BY DEF May
<1>1. CASE UNCHANGED <<live, env, client>>
  BY <1>1, <1>m
<1>2. CASE UNCHANGED <<live, env>> /\ client # "ended"
  <2>1. CASE client' = "ended"
    BY <1>2, <1>m, <2>1 DEF Abstract!Next, Abstract!End, May
  <2>2. CASE client' # "ended"
    BY <1>2, <1>m, <2>2
  <2> QED
    BY <2>1, <2>2
<1>3. CASE ReadAnswer
  <2>1. CASE client' = "batching"
    <3> DEFINE marks == UNION {AskedOf(queries, id) :
                                    id \in Head(toClient).payload}
    <3>1. /\ live' = live \cup marks
          /\ UNCHANGED env /\ client = "reading"
      BY <1>3, <2>1 DEF ReadAnswer
    <3>2. marks \in SUBSET May
      BY <1>3, <2>1, AnswerAllowed
    <3> HIDE DEF marks
    <3>3. Abstract!Mark(marks)
      BY <1>m, <2>1, <3>1 DEF Abstract!Mark, May
    <3> QED
      BY <3>2, <3>3 DEF Abstract!Next, May
  <2>2. CASE client' # "batching"
    BY <1>2, <1>3, <2>2 DEF ReadAnswer
  <2> QED
    BY <2>1, <2>2
<1>4. CASE Helper
  BY <1>1, <1>4, HelperStep DEF clientVars, MarksInv, PipesInv
<1>5. ASSUME NEW order \in Orders, ReadReady(order)
      PROVE  UNCHANGED <<live, May, client = "ended">> \/ Abstract!Next
  BY <1>2, <1>5 DEF ReadReady
<1>6. CASE \/ Spawn \/ HandshakeLost \/ SendBatch \/ AnswerLost \/ Shutdown
           \/ Wait \/ Killed
  BY <1>2, <1>6 DEF Spawn, HandshakeLost, SendBatch, AnswerLost, Shutdown,
     Wait, Killed, Closed
<1>7. CASE Dies \/ Hangs \/ UNCHANGED vars
  BY <1>1, <1>7 DEF Dies, Hangs, helperUnchanged, clientVars, vars
<1> QED
  BY <1>3, <1>4, <1>5, <1>6, <1>7 DEF Next, Client

(* A session with the helper does to a build what Refinement says: until   *)
(* it ends, exports that the helper may vouch for become live, no other    *)
(* does, and none stops to be.  Code: build.rs:659.                        *)
THEOREM SessionImplementsRefinement == Spec => ImplementsRefinement
<1>1. Init => Abstract!Init
  BY DEF Init, Environments, Abstract!Init, Dead
<1>2. MarksInv /\ [Next]_vars =>
        [Abstract!Next]_<<live, IF env.lossy = {} THEN env.references ELSE Dead,
                          client = "ended">>
  BY RefinementStep DEF May
<1> QED
  BY <1>1, <1>2, MarksInit, MarksInvStep, PTL
     DEF Spec, ImplementsRefinement, Abstract!Spec
=============================================================================
