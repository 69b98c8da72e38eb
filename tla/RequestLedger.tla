---------------------------- MODULE RequestLedger ----------------------------
(***************************************************************************)
(* The request ids of CoreServer: what happens to a request that arrives   *)
(* once more, on the same or another connection, while it is in flight,    *)
(* after it was answered, after its answer was evicted, after a crash.     *)
(*                                                                         *)
(* #handleMessage is one step up to the await of the dispatch, and one     *)
(* step after it: nothing else runs in between.  Whoever waits for the     *)
(* same promise hears of its end in that step.                             *)
(***************************************************************************)
EXTENDS Naturals, Sequences, FiniteSets, SequencesExt

CONSTANTS
    Keys,           \* request keys: the id of a client and its request id
    Fingerprints,   \* what is asked for: hash of method and params
    Mutations,      \* those whose method isMutatingMethod
    None,           \* no fingerprint
    Connections,
    Responses,      \* how a dispatch may end: an answer, and its bytes in the cache
    CacheBytes,     \* #requestCacheByteLimit
    CacheSize       \* #requestCacheSize

ASSUME RequestLedgerAssumption ==
    /\ None \notin Fingerprints \cup Keys /\ Mutations \subseteq Fingerprints
    /\ Responses \subseteq {"ok", "failed"} \X (Nat \ {0})
    /\ CacheBytes \in Nat /\ CacheSize \in Nat

Answers == {"ok", "failed"}

VARIABLES
    pending,    \* #pendingRequests, and how far the dispatch is
    entry,      \* #requestCache and #requestTombstones, by its place
    order,      \* #completedRequestOrder
    claims,     \* rows of ipc_mutation_requests
    waiting,    \* what a connection waits for
    effects,    \* history: how often a mutation was performed under a key
    given       \* history: what was answered to mutations under a key

memory == <<pending, entry, order, waiting>>
history == <<effects, given>>
vars == <<memory, claims, history>>

NoFlight == [fp |-> None, phase |-> "none"]
NoEntry == [fp |-> None, answer |-> "none", bytes |-> 0, place |-> "none"]
NoClaim == [fp |-> None, completed |-> FALSE]
Silent == <<None, None>>

InFlight(k) == pending[k].fp # None
Known(k) == entry[k].fp # None
InCache(e) == e.place = "cache"

-----------------------------------------------------------------------------
(* A request arrives.                                                       *)

\* send: the history keeps the answers to mutations.
Tell(k, requests, answer) == given' =
    [given EXCEPT ![k] = @ \cup {<<f, answer>> : f \in requests \cap Mutations}]

MatchesMutant(known, f) == TRUE

\* Is it the same request again?
Matches(known, f) == known.fp = f

\* replay_unavailable for the same request, request_id_conflict for another one
Refuse == UNCHANGED given

\* The request is in the cache, or all that is left of it is a tombstone.
Replay(k, f) ==
    /\ Known(k)
    /\ IF InCache(entry[k]) /\ Matches(entry[k], f)
       THEN Tell(k, {f}, entry[k].answer)
       ELSE Refuse
    /\ UNCHANGED <<memory, claims, effects>>

\* It is in flight: the connection waits with the first one.
Join(c, k, f) ==
    /\ ~Known(k) /\ InFlight(k)
    /\ IF Matches(pending[k], f)
       THEN waiting' = [waiting EXCEPT ![c] = <<k, f>>] /\ UNCHANGED given
       ELSE Refuse /\ UNCHANGED waiting
    /\ UNCHANGED <<pending, entry, order, claims, effects>>

Dispatch(c, k, f) ==
    /\ pending' = [pending EXCEPT ![k] = [fp |-> f, phase |-> "called"]]
    /\ waiting' = [waiting EXCEPT ![c] = <<k, f>>]
    /\ UNCHANGED <<entry, order, effects>>

ClaimedMutant(k) == FALSE

\* does claimMutationRequest find a row?
Claimed(k) == claims[k].fp # None

\* It is new to this process.  A mutation claims its id in the store first.
Accept(c, k, f) ==
    /\ ~Known(k) /\ ~InFlight(k)
    /\ IF f \in Mutations /\ Claimed(k)
       THEN Refuse /\ UNCHANGED <<memory, claims, effects>>
       ELSE /\ Dispatch(c, k, f)
            /\ claims' = IF f \in Mutations
                         THEN [claims EXCEPT ![k] = [fp |-> f, completed |-> FALSE]]
                         ELSE claims
            /\ UNCHANGED given

Receive(c, k, f) ==
    /\ waiting[c] = Silent
    /\ Replay(k, f) \/ Join(c, k, f) \/ Accept(c, k, f)

-----------------------------------------------------------------------------
(* The dispatch runs and ends.                                              *)

\* the method does what it was asked to
Perform(k) ==
    /\ pending[k].phase = "called"
    /\ pending' = [pending EXCEPT ![k].phase = "performed"]
    /\ effects' = IF pending[k].fp \in Mutations
                  THEN [effects EXCEPT ![k] = @ + 1] ELSE effects
    /\ UNCHANGED <<entry, order, waiting, claims, given>>

BytesFrom(o, e, first) ==
    MapThenSumSet(LAMBDA i : IF InCache(e[o[i]]) THEN e[o[i]].bytes ELSE 0, first..Len(o))

KeptMutant(o, e) ==
    {o[i] : i \in {j \in DOMAIN o : InCache(e[o[j]]) /\ BytesFrom(o, e, j + 1) <= CacheBytes}}

\* The newest answers that fit into the limit of bytes stay, older ones become
\* tombstones.
Kept(o, e) ==
    {o[i] : i \in {j \in DOMAIN o : InCache(e[o[j]]) /\ BytesFrom(o, e, j) <= CacheBytes}}

\* The newest CacheSize keys are remembered at all.
Remembered(o) == SubSeq(o, IF Len(o) > CacheSize THEN Len(o) - CacheSize + 1 ELSE 1, Len(o))

Cache(k, f, answer, bytes) ==
    LET completed == Append(RemoveFirst(order, k), k)
        stored == [entry EXCEPT ![k] =
                     [fp |-> f, answer |-> answer, bytes |-> bytes,
                      place |-> IF bytes <= CacheBytes THEN "cache" ELSE "tombstone"]]
        kept == Kept(completed, stored)
        left == Remembered(completed)
    IN /\ order' = left
       /\ entry' = [other \in Keys |->
            IF \A i \in DOMAIN left : left[i] # other THEN NoEntry
            ELSE IF InCache(stored[other]) /\ other \notin kept
            THEN [stored[other] EXCEPT !.place = "tombstone"] ELSE stored[other]]

CompleteMutant(k) == claims' = [claims EXCEPT ![k].completed = TRUE]

\* completeMutationRequest, of a mutation
Complete(k) == claims' = IF pending[k].fp \in Mutations
                         THEN [claims EXCEPT ![k].completed = TRUE] ELSE claims

Waiting(k) == {c \in Connections : waiting[c][1] = k}

\* The dispatch threw, or its result is the answer.  The claim is completed, the answer
\* cached, and all who wait hear it.
Settle(k, answer, bytes) ==
    /\ pending[k].phase = "performed" \/ (pending[k].phase = "called" /\ answer = "failed")
    /\ pending' = [pending EXCEPT ![k] = NoFlight]
    /\ Complete(k)
    /\ Cache(k, pending[k].fp, answer, bytes)
    /\ waiting' = [c \in Connections |-> IF c \in Waiting(k) THEN Silent ELSE waiting[c]]
    /\ Tell(k, {waiting[c][2] : c \in Waiting(k)}, answer)
    /\ UNCHANGED effects

\* A connection ends, the requests it sent run on.
Disconnect(c) ==
    /\ waiting[c] # Silent
    /\ waiting' = [waiting EXCEPT ![c] = Silent]
    /\ UNCHANGED <<pending, entry, order, claims, history>>

\* The Core dies and comes back with what the store has.
Crash ==
    /\ pending' = [k \in Keys |-> NoFlight]
    /\ entry' = [k \in Keys |-> NoEntry]
    /\ order' = <<>>
    /\ waiting' = [c \in Connections |-> Silent]
    /\ UNCHANGED <<claims, history>>

-----------------------------------------------------------------------------
Init ==
    /\ pending = [k \in Keys |-> NoFlight]
    /\ entry = [k \in Keys |-> NoEntry]
    /\ order = <<>>
    /\ claims = [k \in Keys |-> NoClaim]
    /\ waiting = [c \in Connections |-> Silent]
    /\ effects = [k \in Keys |-> 0]
    /\ given = [k \in Keys |-> {}]

Next ==
    \/ \E c \in Connections, k \in Keys, f \in Fingerprints : Receive(c, k, f)
    \/ \E k \in Keys : Perform(k)
    \/ \E k \in Keys, response \in Responses : Settle(k, response[1], response[2])
    \/ \E c \in Connections : Disconnect(c)
    \/ Crash

Spec == Init /\ [][Next]_vars

-----------------------------------------------------------------------------
(* Properties.                                                              *)

Flight == [fp : Fingerprints, phase : {"called", "performed"}] \cup {NoFlight}
Entry ==
    [fp : Fingerprints, answer : Answers, bytes : Nat, place : {"cache", "tombstone"}] \cup {NoEntry}
Claim == [fp : Mutations, completed : BOOLEAN] \cup {NoClaim}

\* Every variable has its type.
LedgerTypeOK ==
    /\ pending \in [Keys -> Flight]
    /\ entry \in [Keys -> Entry]
    /\ claims \in [Keys -> Claim]
    /\ waiting \in [Connections -> (Keys \X Fingerprints) \cup {Silent}]
    /\ effects \in [Keys -> Nat]
    /\ given \in [Keys -> SUBSET (Mutations \X Answers)]

\* Under an id a mutation is performed at most once, also when it arrives again on
\* other connections, after its answer was evicted and after a crash
\* (claimMutationRequest before the dispatch).
AtMostOnce == \A k \in Keys : effects[k] <= 1

\* Those who repeat a mutation never hear two different answers, and no two different
\* mutations are ever answered under one id; who hears "ok" can rely on it.
OneAnswer == \A k \in Keys :
    \A told, other \in given[k] :
        told = other /\ (told[2] = "ok" => effects[k] = 1)

\* The cache stays within both of its limits, counts what it keeps, and knows nothing
\* of a request that is in flight (#cache).
CacheWithinBounds ==
    /\ Len(order) <= CacheSize
    /\ BytesFrom(order, entry, 1) <= CacheBytes
    /\ {k \in Keys : Known(k)} = {order[i] : i \in DOMAIN order}
    /\ \A k \in Keys : ~(Known(k) /\ InFlight(k))

\* The ledger implements the log of mutations.
Log == INSTANCE MutationLog WITH
    accepted <- [k \in Keys |-> claims[k].fp], performed <- effects
LogSpec == Log!Spec

=============================================================================
