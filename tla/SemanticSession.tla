-------------------------- MODULE SemanticSession --------------------------
(***************************************************************************)
(* The semantic refinement of a graph build (build.rs): the client spawns  *)
(* the helper, shakes hands over its two pipes, sends the exports that are *)
(* not live in batches, marks those the helper has references to, and      *)
(* waits for the helper to exit.                                           *)
(*                                                                         *)
(* A pipe is a sequence of messages.  Closing the client's ends is what    *)
(* ends the client: the helper then reads the end of its input and fails   *)
(* to write.                                                               *)
(***************************************************************************)
EXTENDS Naturals, Sequences, FiniteSets, SequencesExt

CONSTANTS
    Exports,          \* exports of the symbol graph
    LiveBefore,       \* those live after propagate_liveness
    ProtocolVersion,  \* PROTOCOL_VERSION of the client
    HelperVersions,   \* versions of the helpers that may be installed
    MaxTsconfigs,     \* bound: tsconfig.json files of the project
    FilesIndexed      \* sizes of the helper's index

ASSUME SessionAssumption ==
    /\ LiveBefore \subseteq Exports
    /\ IsFiniteSet(Exports)
    /\ MaxTsconfigs \in Nat
    /\ FilesIndexed \subseteq Nat

Dead == Exports \ LiveBefore

VARIABLES
    client,    \* where the build is in its use of the helper
    helper,    \* where the helper process is
    toHelper,  \* its standard input
    toClient,  \* its standard output
    queries,   \* the exports asked about, in the order of their ids
    next,      \* id of the first query not yet sent
    live,      \* SymbolGraph: the live exports
    answered,  \* ids of the queries whose answers were applied (history)
    env        \* the project and the helper found, fixed at the start

clientVars == <<client, queries, next, live, answered>>
vars == <<clientVars, helper, toHelper, toClient, env>>

(* installed: a binary is found and can be spawned.  references: the       *)
(* exports the helper's index has importers of.  lossy: the exports of     *)
(* files whose path is not UTF-8, which the path in a query does not name. *)
Environments ==
    [installed : {"no", "unspawnable", "yes"},
     version : HelperVersions,
     tsconfigs : 0..MaxTsconfigs,
     indexed : FilesIndexed,
     references : SUBSET Dead,
     lossy : SUBSET Dead]

Init ==
    /\ env \in Environments
    /\ client = "discover" /\ helper = "absent"
    /\ toHelper = <<>> /\ toClient = <<>>
    /\ queries = <<>> /\ next = 1
    /\ live = LiveBefore /\ answered = {}

-----------------------------------------------------------------------------
Closed == client \in {"ended", "killed"}
Exited == helper = "exited"

(* encode_message and the header that read_message decodes first: a kind   *)
(* and a payload, which is only read when its size is within the limit.    *)
Message(type, payload) == [type |-> type, payload |-> payload]
TooLarge == Message("Response over MAX_PAYLOAD_SIZE", {})

(* ready.files_indexed.clamp(1, 128), where 128 is beyond every instance *)
BatchSize == IF env.indexed < 1 THEN 1
             ELSE IF env.indexed > 128 THEN 128 ELSE env.indexed

(* Mutant of AskedOf: the ids of the answers are taken as positions in the *)
(* batch.                                                                  *)
AskedOfBatch(sent, id) == {sent[((id - 1) % BatchSize) + 1]}

(* query_index: the queries whose path is found again in file_nodes, in    *)
(* their order.  An answer is about the one whose position there is its id.*)
AskedOf(sent, id) ==
    LET index == {k \in 1..Len(sent) : sent[k] \notin env.lossy}
        position(k) == Cardinality({i \in 1..k : i \in index})
    IN {sent[k] : k \in {j \in index : position(j) = id}}

BatchEnd == IF next + BatchSize - 1 < Len(queries)
            THEN next + BatchSize - 1 ELSE Len(queries)

-----------------------------------------------------------------------------
(* SemanticClient::discover_binary and spawn, up to the handshake.  The    *)
(* version travels in it, and the tsconfig paths of the project.           *)
Spawn ==
    /\ client = "discover"
    /\ IF env.installed = "yes"
       THEN /\ client' = "handshake"
            /\ helper' = "start"
            /\ toHelper' = <<Message("Query", ProtocolVersion)>>
       ELSE /\ client' = "ended"
            /\ UNCHANGED <<helper, toHelper>>
    /\ UNCHANGED <<toClient, queries, next, live, answered, env>>

(* The client reads: a message that has arrived, or the end of the pipe *)
Arrives(message) == toClient # <<>> /\ message = Head(toClient)
EndOfInput == toClient = <<>> /\ Exited

(* One query for each export that is not live, in the order of the map *)
CollectQueries(order) ==
    /\ order \in [1..Cardinality(Dead) -> Dead]
    /\ ToSet(order) = Dead

(* The Ready message of a helper of this version starts the queries, when  *)
(* it has loaded a project at all.  Everything else fails the spawn: the   *)
(* child is dropped, which closes its pipes and does not kill it.          *)
ReadReady(order) ==
    /\ client = "handshake"
    /\ toClient # <<>>
    /\ CollectQueries(order)
    /\ toClient' = Tail(toClient)
    /\ LET m == Head(toClient) IN
       IF m.type # "Ready" \/ m.payload # ProtocolVersion
       THEN client' = "ended" /\ UNCHANGED queries
       ELSE IF env.tsconfigs > 0
       THEN client' = "batching" /\ queries' = order
       ELSE client' = "leaving" /\ UNCHANGED queries
    /\ UNCHANGED <<helper, toHelper, next, live, answered, env>>

HandshakeLost ==
    /\ client = "handshake"
    /\ EndOfInput
    /\ client' = "ended"
    /\ UNCHANGED <<queries, next, live, answered, helper, toHelper,
                   toClient, env>>

(* SemanticClient::query writes a batch, which fails when nobody reads. *)
SendBatch ==
    /\ client = "batching"
    /\ IF next > Len(queries) \/ Exited
       THEN client' = "leaving" /\ UNCHANGED toHelper
       ELSE /\ client' = "reading"
            /\ toHelper' = Append(toHelper,
                                  Message("Query", next..BatchEnd))
    /\ UNCHANGED <<queries, next, live, answered, helper, toClient, env>>

(* Mutants of ReadAnswer: the marks of the last answer replace the others; *)
(* the answers that were read before a failure are given up.               *)
ReadLastAnswer ==
    /\ client = "reading"
    /\ toClient # <<>>
    /\ LET m == Head(toClient) IN
       IF m.type # "Response"
       THEN client' = "leaving" /\ UNCHANGED <<next, live, answered>>
       ELSE /\ client' = "batching"
            /\ live' = UNION {AskedOf(queries, id) : id \in m.payload}
            /\ answered' = answered \cup (next..BatchEnd)
            /\ next' = BatchEnd + 1
    /\ toClient' = Tail(toClient)
    /\ UNCHANGED <<queries, helper, toHelper, env>>

ReadAnswerOrUndo ==
    /\ client = "reading"
    /\ toClient # <<>>
    /\ LET m == Head(toClient) IN
       IF m.type # "Response"
       THEN /\ client' = "leaving"
            /\ live' = LiveBefore
            /\ UNCHANGED <<next, answered>>
       ELSE /\ client' = "batching"
            /\ live' = live \cup UNION {AskedOf(queries, id) : id \in m.payload}
            /\ answered' = answered \cup (next..BatchEnd)
            /\ next' = BatchEnd + 1
    /\ toClient' = Tail(toClient)
    /\ UNCHANGED <<queries, helper, toHelper, env>>

(* ... and reads the answer.  The payload of a response is the ids of the  *)
(* queries that succeeded with at least one reference; the exports they    *)
(* were about become live.  A larger payload, an error or another kind of  *)
(* message fails the batch, and the first failure ends the queries.        *)
ReadAnswer ==
    /\ client = "reading"
    /\ toClient # <<>>
    /\ LET m == Head(toClient) IN
       IF m.type # "Response"
       THEN client' = "leaving" /\ UNCHANGED <<next, live, answered>>
       ELSE /\ client' = "batching"
            /\ live' = live \cup UNION {AskedOf(queries, id) : id \in m.payload}
            /\ answered' = answered \cup (next..BatchEnd)
            /\ next' = BatchEnd + 1
    /\ toClient' = Tail(toClient)
    /\ UNCHANGED <<queries, helper, toHelper, env>>

AnswerLost ==
    /\ client = "reading"
    /\ EndOfInput
    /\ client' = "leaving"
    /\ UNCHANGED <<queries, next, live, answered, helper, toHelper,
                   toClient, env>>

(* SemanticClient::shutdown: the write is best effort *)
Shutdown ==
    /\ client = "leaving"
    /\ client' = "waiting"
    /\ toHelper' = IF Exited THEN toHelper
                   ELSE Append(toHelper, Message("Shutdown", {}))
    /\ UNCHANGED <<queries, next, live, answered, helper, toClient, env>>

(* ... and child.wait() has no limit.  The output of the helper is held    *)
(* open meanwhile and not read.                                            *)
Wait ==
    /\ client = "waiting"
    /\ Exited
    /\ client' = "ended"
    /\ UNCHANGED <<queries, next, live, answered, helper, toHelper,
                   toClient, env>>

-----------------------------------------------------------------------------
(* run_headless of pruneguard-tsgo *)

helperUnchanged == UNCHANGED <<clientVars, env>>

(* send_message; the write fails, and run_headless with it, when nobody    *)
(* holds the other end                                                     *)
Send(message, then) ==
    IF Closed THEN helper' = "exited" /\ UNCHANGED toClient
    ELSE helper' = then /\ toClient' = Append(toClient, message)

(* The handshake must come first and be of this version. *)
ReadHandshake ==
    /\ helper = "start"
    /\ toHelper # <<>>
    /\ toHelper' = Tail(toHelper)
    /\ IF Head(toHelper).payload # env.version
       THEN Send(Message("Error", "version mismatch"), "exited")
       ELSE helper' = "indexing" /\ UNCHANGED toClient
    /\ helperUnchanged

(* SemanticIndex::build, then the Ready message *)
SendReady ==
    /\ helper = "indexing"
    /\ Send(Message("Ready", env.version), "loop")
    /\ UNCHANGED toHelper
    /\ helperUnchanged

(* Mutant of AnswerBatch: a batch without a result is not answered. *)
AnswerIfFound(large) ==
    /\ helper = "loop"
    /\ toHelper # <<>>
    /\ Head(toHelper).type = "Query"
    /\ toHelper' = Tail(toHelper)
    /\ LET found == {id \in Head(toHelper).payload :
                        queries[id] \in env.references}
       IN  IF found = {} THEN UNCHANGED <<helper, toClient>>
           ELSE Send(Message("Response", found), "loop")
    /\ helperUnchanged

(* One batch: each query is answered from the index under its own id.  A   *)
(* response over the limit does not fit the pipe, and the helper stays in  *)
(* write_all until somebody reads it or closes the pipe.                   *)
AnswerBatch(large) ==
    /\ helper = "loop"
    /\ toHelper # <<>>
    /\ Head(toHelper).type = "Query"
    /\ toHelper' = Tail(toHelper)
    /\ LET found == {id \in Head(toHelper).payload :
                        queries[id] \in env.references}
       IN  IF large /\ found # {}
           THEN Send(TooLarge, "writing")
           ELSE Send(Message("Response", found), "loop")
    /\ helperUnchanged

(* Mutant of LeaveLoop: the end of the input is taken for silence. *)
LeaveOnShutdown ==
    /\ helper = "loop"
    /\ toHelper # <<>> /\ Head(toHelper).type = "Shutdown"
    /\ helper' = "exited"
    /\ UNCHANGED <<toHelper, toClient>>
    /\ helperUnchanged

(* The loop ends on Shutdown and at the end of the input. *)
LeaveLoop ==
    /\ helper = "loop"
    /\ \/ toHelper # <<>> /\ Head(toHelper).type = "Shutdown"
       \/ toHelper = <<>> /\ Closed
    /\ helper' = "exited"
    /\ UNCHANGED <<toHelper, toClient>>
    /\ helperUnchanged

(* ... which ends the write, and the helper *)
WriteFails ==
    /\ helper = "writing"
    /\ Closed
    /\ helper' = "exited"
    /\ UNCHANGED <<toHelper, toClient>>
    /\ helperUnchanged

(* Faults: the helper is killed, or stops making progress for ever. *)
Dies ==
    /\ helper \notin {"absent", "exited", "hung"}
    /\ helper' = "exited"
    /\ UNCHANGED <<toHelper, toClient>>
    /\ helperUnchanged

(* The process of the build is killed; its destructors do not run. *)
Killed ==
    /\ ~Closed
    /\ client' = "killed"
    /\ UNCHANGED <<queries, next, live, answered, helper, toHelper,
                   toClient, env>>

Hangs ==
    /\ helper \in {"start", "indexing", "loop"}
    /\ helper' = "hung"
    /\ UNCHANGED <<toHelper, toClient>>
    /\ helperUnchanged

-----------------------------------------------------------------------------
Orders == [1..Cardinality(Dead) -> Dead]

Client ==
    \/ Spawn \/ HandshakeLost
    \/ \E order \in Orders : ReadReady(order)
    \/ SendBatch \/ ReadAnswer \/ AnswerLost
    \/ Shutdown \/ Wait

Helper ==
    \/ ReadHandshake \/ SendReady \/ LeaveLoop \/ WriteFails
    \/ \E large \in BOOLEAN : AnswerBatch(large)

Next == Client \/ Helper \/ Dies \/ Hangs \/ Killed

Spec == Init /\ [][Next]_vars

(* Two processes that the operating system schedules.  A hung helper is    *)
(* one whose steps are no longer enabled; nothing says it will be killed.  *)
Fairness == WF_vars(Client) /\ WF_vars(Helper)
FairSpec == Spec /\ Fairness

-----------------------------------------------------------------------------
(* Types of the session's state *)
TypeOK ==
    /\ env \in Environments
    /\ client \in {"discover", "handshake", "batching", "reading",
                   "leaving", "waiting", "ended", "killed"}
    /\ helper \in {"absent", "start", "indexing", "loop", "writing", "hung",
                   "exited"}
    /\ queries \in Seq(Dead) /\ next \in Nat \ {0}
    /\ LiveBefore \subseteq live /\ live \subseteq Exports
    /\ answered \subseteq 1..Len(queries)

(* Before the first path that a query does not name, ids and positions     *)
(* agree: an export is live after the refinement if and only if its batch  *)
(* was answered and the helper knows a reference to it (build.rs:746-775). *)
Faithful(id) == \A i \in 1..id : queries[i] \notin env.lossy
MarksAreExact ==
    \A id \in DOMAIN queries :
        Faithful(id) =>
            (queries[id] \in live <=>
                id \in answered /\ queries[id] \in env.references)

(* The build gets past the helper, whether it is missing, of another       *)
(* version, or dies, unless it hangs or has more to say than MAX_PAYLOAD.  *)
BuildGoesOn == <>(Closed \/ helper \in {"hung", "writing"})

(* A helper does not outlive the build that started it, even when nobody   *)
(* tells it to stop.                                                       *)
NoOrphan == Closed ~> helper \in {"absent", "exited", "hung"}

(* What DeadCode takes the refinement to be: exports become live, only     *)
(* before it ends, and only those that the helper may vouch for.           *)
Abstract == INSTANCE Refinement WITH
    may <- IF env.lossy = {} THEN env.references ELSE Dead,
    ended <- client = "ended"
ImplementsRefinement == Abstract!Spec
=============================================================================
