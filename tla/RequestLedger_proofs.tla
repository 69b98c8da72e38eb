------------------------ MODULE RequestLedger_proofs ------------------------
(***************************************************************************)
(* Proofs about RequestLedger: its type, that a mutation is performed at   *)
(* most once, that the ledger implements MutationLog, and that the cache   *)
(* of answers stays within its limits.                                     *)
(***************************************************************************)
EXTENDS RequestLedger, SequenceLemmas

\* What makes AtMostOnce inductive: nothing was performed under an id nobody claimed,
\* and a mutation in flight has claimed its id and is performed once at most.
ClaimGuards(k) ==
    /\ claims[k].fp = None => effects[k] = 0
    /\ pending[k].fp \in Mutations => claims[k].fp = pending[k].fp
    /\ pending[k].fp \in Mutations /\ pending[k].phase = "called" => effects[k] = 0
    /\ pending[k].fp \in Mutations /\ pending[k].phase = "performed" => effects[k] = 1
    /\ effects[k] <= 1

\* What makes OneAnswer inductive: nobody has heard an answer before the dispatch has
\* ended, and what the cache holds is what they heard.
AnswerGuards(k) ==
    /\ Known(k) => ~InFlight(k)
    /\ claims[k].fp = None => given[k] = {}
    /\ pending[k].fp \in Mutations => given[k] = {}
    /\ entry[k].fp \in Mutations =>
          /\ claims[k].fp = entry[k].fp
          /\ given[k] \subseteq {<<entry[k].fp, entry[k].answer>>}
          /\ entry[k].answer = "ok" => effects[k] = 1
    /\ \A told, other \in given[k] : told = other /\ (told[2] = "ok" => effects[k] = 1)

\* A connection waits for the request it sent, not for another one under its id.
WaitsForItsOwn ==
    \A c \in Connections : waiting[c] # Silent =>
        pending[waiting[c][1]].fp = waiting[c][2]

LedgerInv ==
    /\ LedgerTypeOK
    /\ WaitsForItsOwn
    /\ \A k \in Keys : ClaimGuards(k) /\ AnswerGuards(k)

LEMMA NoneIsNoMutation == None \notin Mutations /\ Mutations \subseteq Fingerprints
  BY RequestLedgerAssumption

-----------------------------------------------------------------------------
(* Type.                                                                    *)

\* A request that arrives leaves every variable with its type.
LEMMA ReceiveType ==
  ASSUME LedgerTypeOK, NEW c \in Connections, NEW k \in Keys, NEW f \in Fingerprints,
         Receive(c, k, f)
  PROVE  LedgerTypeOK'
  <1>1. CASE Replay(k, f)
    <2>1. entry[k] \in [fp : Fingerprints, answer : Answers, bytes : Nat, place : {"cache", "tombstone"}]
      BY <1>1, NoneIsNoMutation DEF LedgerTypeOK, Entry, NoEntry, Replay, Known
    <2>2. {<<g, entry[k].answer>> : g \in {f} \cap Mutations} \subseteq Mutations \X Answers
      BY <2>1
    <2>3. given' \in [Keys -> SUBSET (Mutations \X Answers)]
      BY <1>1, <2>2 DEF LedgerTypeOK, Replay, Tell, Refuse
    <2>. QED BY <1>1, <2>3 DEF LedgerTypeOK, Replay, memory
  <1>2. CASE Join(c, k, f)
    BY <1>2 DEF LedgerTypeOK, Join, Refuse
  <1>3. CASE Accept(c, k, f)
    <2>1. UNCHANGED <<entry, effects, given>>
      BY <1>3 DEF Accept, Dispatch, Refuse, memory
    <2>2. pending' \in [Keys -> Flight] /\ waiting' \in [Connections -> (Keys \X Fingerprints) \cup {Silent}]
      BY <1>3 DEF LedgerTypeOK, Accept, Dispatch, memory, Flight
    <2>3. claims' \in [Keys -> Claim]
      <3>1. CASE f \in Mutations /\ ~Claimed(k)
        <4>1. claims' = [claims EXCEPT ![k] = [fp |-> f, completed |-> FALSE]]
          BY <1>3, <3>1 DEF Accept
        <4>2. [fp |-> f, completed |-> FALSE] \in Claim
          BY <3>1 DEF Claim
        <4>. QED BY <4>1, <4>2 DEF LedgerTypeOK
      <3>2. CASE ~(f \in Mutations /\ ~Claimed(k))
        <4>1. claims' = claims BY <1>3, <3>2 DEF Accept
        <4>. QED BY <4>1 DEF LedgerTypeOK
      <3>. QED BY <3>1, <3>2
    <2>. QED BY <2>1, <2>2, <2>3 DEF LedgerTypeOK
  <1>. QED BY <1>1, <1>2, <1>3 DEF Receive

\* What the cache holds after an answer is stored: that answer and those it held, of
\* which some are tombstones now and some are forgotten.
LEMMA CacheEntries ==
  ASSUME LedgerTypeOK, NEW k \in Keys, NEW f \in Fingerprints,
         NEW answer \in Answers, NEW bytes \in Nat, Cache(k, f, answer, bytes)
  PROVE  /\ entry' \in [Keys -> Entry]
         /\ entry'[k] # NoEntry => entry'[k].fp = f /\ entry'[k].answer = answer
         /\ \A other \in Keys \ {k} : entry'[other] # NoEntry =>
              entry'[other].fp = entry[other].fp /\ entry'[other].answer = entry[other].answer
  <1>. DEFINE stored == [entry EXCEPT ![k] =
                [fp |-> f, answer |-> answer, bytes |-> bytes,
                 place |-> IF bytes <= CacheBytes THEN "cache" ELSE "tombstone"]]
  <1>1. stored \in [Keys -> Entry]
    BY DEF LedgerTypeOK, Entry
  <1>2. ASSUME NEW other \in Keys, InCache(stored[other])
        PROVE  [stored[other] EXCEPT !.place = "tombstone"] \in Entry
    BY <1>1, <1>2 DEF Entry, InCache, NoEntry
  <1>3. DOMAIN entry' = Keys /\ entry' = [other \in Keys |-> entry'[other]]
    BY DEF Cache
  <1>4. ASSUME NEW other \in Keys
        PROVE  \/ entry'[other] = NoEntry
               \/ entry'[other] = stored[other]
               \/ /\ InCache(stored[other])
                  /\ entry'[other] = [stored[other] EXCEPT !.place = "tombstone"]
    <2>. DEFINE completed == Append(RemoveFirst(order, k), k)
                kept == Kept(completed, stored)
                left == Remembered(completed)
    <2>1. entry'[other] =
            IF \A i \in DOMAIN left : left[i] # other THEN NoEntry
            ELSE IF InCache(stored[other]) /\ other \notin kept
            THEN [stored[other] EXCEPT !.place = "tombstone"] ELSE stored[other]
      BY DEF Cache
    <2>. HIDE DEF completed, kept, left, stored
    <2>. QED BY <2>1
  <1>5. ASSUME NEW other \in Keys PROVE entry'[other] \in Entry
    <2>. HIDE DEF stored
    <2>1. NoEntry \in Entry BY DEF Entry
    <2>. QED BY <1>1, <1>2, <1>4, <2>1
  <1>6. ASSUME NEW other \in Keys, entry'[other] # NoEntry
        PROVE  entry'[other].fp = stored[other].fp /\ entry'[other].answer = stored[other].answer
    <2>. HIDE DEF stored
    <2>1. [stored[other] EXCEPT !.place = "tombstone"].fp = stored[other].fp
      BY <1>1 DEF Entry, NoEntry
    <2>2. [stored[other] EXCEPT !.place = "tombstone"].answer = stored[other].answer
      BY <1>1 DEF Entry, NoEntry
    <2>. QED BY <1>4, <1>6, <2>1, <2>2
  <1>7. stored[k].fp = f /\ stored[k].answer = answer
    BY DEF LedgerTypeOK
  <1>8. \A other \in Keys \ {k} : stored[other] = entry[other]
    BY DEF LedgerTypeOK
  <1>. HIDE DEF stored
  <1>. QED BY <1>3, <1>5, <1>6, <1>7, <1>8

\* So does the end of a dispatch.
LEMMA SettleType ==
  ASSUME LedgerInv, NEW k \in Keys, NEW response \in Responses,
         Settle(k, response[1], response[2])
  PROVE  LedgerTypeOK'
  <1>. DEFINE f == pending[k].fp
  <1>0. LedgerTypeOK BY DEF LedgerInv
  <1>1. f \in Fingerprints
    BY <1>0 DEF LedgerTypeOK, Settle, Flight, NoFlight
  <1>2. response[1] \in Answers /\ response[2] \in Nat
    BY RequestLedgerAssumption DEF Answers
  <1>3. entry' \in [Keys -> Entry]
    BY <1>0, <1>1, <1>2, CacheEntries DEF Settle
  <1>4. claims' \in [Keys -> Claim]
    <2>1. CASE f \in Mutations
      <3>1. claims[k] \in [fp : Mutations, completed : BOOLEAN]
        BY <2>1, NoneIsNoMutation DEF LedgerInv, ClaimGuards, LedgerTypeOK, Claim, NoClaim
      <3>2. claims' = [claims EXCEPT ![k] = [@ EXCEPT !.completed = TRUE]]
        BY <2>1 DEF Settle, Complete
      <3>3. [claims[k] EXCEPT !.completed = TRUE] \in Claim
        BY <3>1 DEF Claim
      <3>. QED BY <1>0, <3>2, <3>3 DEF LedgerTypeOK
    <2>2. CASE f \notin Mutations
      BY <1>0, <2>2 DEF LedgerTypeOK, Settle, Complete
    <2>. QED BY <2>1, <2>2
  <1>5. given' \in [Keys -> SUBSET (Mutations \X Answers)]
    BY <1>0, <1>2 DEF LedgerTypeOK, Settle, Tell
  <1>6. pending' \in [Keys -> Flight] /\ effects' = effects
    BY <1>0 DEF LedgerTypeOK, Settle, Flight
  <1>7. waiting' \in [Connections -> (Keys \X Fingerprints) \cup {Silent}]
    BY <1>0 DEF LedgerTypeOK, Settle
  <1>. QED BY <1>0, <1>3, <1>4, <1>5, <1>6, <1>7 DEF LedgerTypeOK

-----------------------------------------------------------------------------
(* The invariant.                                                           *)

LEMMA InitInv == Init => LedgerInv
  BY NoneIsNoMutation DEF Init, LedgerInv, LedgerTypeOK, WaitsForItsOwn, ClaimGuards,
     AnswerGuards, Flight, Claim, Entry, NoFlight, NoClaim, NoEntry, Known, InFlight, Silent

LEMMA ReceiveInv ==
  ASSUME LedgerInv, NEW c \in Connections, NEW k \in Keys, NEW f \in Fingerprints,
         Receive(c, k, f)
  PROVE  LedgerInv'
  <1>0. LedgerTypeOK BY DEF LedgerInv
  <1>1. LedgerTypeOK' BY <1>0, ReceiveType
  <1>2. CASE Replay(k, f)
    <2>1. UNCHANGED <<pending, entry, claims, waiting, effects>>
      BY <1>2 DEF Replay, memory
    <2>2. WaitsForItsOwn'
      BY <2>1 DEF LedgerInv, WaitsForItsOwn
    <2>3. ASSUME NEW j \in Keys PROVE ClaimGuards(j)'
      BY <2>1 DEF LedgerInv, ClaimGuards
    <2>4. given'[k] \subseteq given[k] \cup {<<entry[k].fp, entry[k].answer>>}
      BY <1>0, <1>2 DEF Replay, Tell, Refuse, Matches, LedgerTypeOK
    <2>5. ASSUME entry[k].fp \notin Mutations PROVE given'[k] = given[k]
      <3>1. CASE given' = given BY <3>1
      <3>2. CASE Tell(k, {f}, entry[k].answer) /\ entry[k].fp = f
        <4>1. {f} \cap Mutations = {} BY <2>5, <3>2
        <4>2. {<<g, entry[k].answer>> : g \in {f} \cap Mutations} = {} BY <4>1
        <4>. QED BY <1>0, <3>2, <4>2 DEF Tell, LedgerTypeOK
      <3>. QED BY <1>2, <3>1, <3>2 DEF Replay, Refuse, Matches
    <2>6. \A j \in Keys \ {k} : given'[j] = given[j]
      BY <1>0, <1>2 DEF Replay, Tell, Refuse, LedgerTypeOK
    <2>7. Known(k) BY <1>2 DEF Replay
    <2>8. AnswerGuards(k)'
      BY <2>1, <2>4, <2>5, <2>7, NoneIsNoMutation DEF LedgerInv, AnswerGuards, Known, InFlight
    <2>9. ASSUME NEW j \in Keys \ {k} PROVE AnswerGuards(j)'
      BY <2>1, <2>6 DEF LedgerInv, AnswerGuards, Known, InFlight
    <2>. QED BY <1>1, <2>2, <2>3, <2>8, <2>9 DEF LedgerInv
  <1>3. CASE Join(c, k, f)
    <2>1. UNCHANGED <<pending, entry, claims, effects, given>>
      BY <1>3 DEF Join, Refuse
    <2>2. WaitsForItsOwn'
      BY <1>0, <1>3, <2>1 DEF LedgerInv, WaitsForItsOwn, Join, Matches, LedgerTypeOK
    <2>3. ASSUME NEW j \in Keys PROVE ClaimGuards(j)' /\ AnswerGuards(j)'
      BY <2>1 DEF LedgerInv, ClaimGuards, AnswerGuards, Known, InFlight
    <2>. QED BY <1>1, <2>2, <2>3 DEF LedgerInv
  <1>4. CASE Accept(c, k, f)
    <2>1. CASE f \in Mutations /\ Claimed(k)
      <3>1. UNCHANGED <<pending, entry, waiting, claims, effects, given>>
        BY <1>4, <2>1 DEF Accept, Refuse, memory
      <3>. QED BY <3>1, <1>1 DEF LedgerInv, WaitsForItsOwn, ClaimGuards, AnswerGuards, Known, InFlight
    <2>2. CASE ~(f \in Mutations /\ Claimed(k))
      <3>1. /\ pending' = [pending EXCEPT ![k] = [fp |-> f, phase |-> "called"]]
            /\ waiting' = [waiting EXCEPT ![c] = <<k, f>>]
            /\ UNCHANGED <<entry, effects, given>>
            /\ ~Known(k) /\ ~InFlight(k)
        BY <1>4, <2>2 DEF Accept, Dispatch
      <3>2. \A j \in Keys \ {k} : pending'[j] = pending[j] /\ claims'[j] = claims[j]
        BY <1>0, <1>4, <2>2 DEF Accept, Dispatch, LedgerTypeOK
      <3>3. IF f \in Mutations THEN claims[k].fp = None /\ claims'[k].fp = f
                              ELSE claims'[k] = claims[k]
        BY <1>0, <1>4, <2>2 DEF Accept, Claimed, LedgerTypeOK
      <3>4. pending'[k].fp = f /\ pending'[k].phase = "called"
        BY <1>0, <3>1 DEF LedgerTypeOK
      <3>5. WaitsForItsOwn'
        <4>1. ASSUME NEW d \in Connections, waiting'[d] # Silent
              PROVE  pending'[waiting'[d][1]].fp = waiting'[d][2]
          <5>1. CASE d = c
            BY <1>0, <3>1, <3>4, <5>1 DEF LedgerTypeOK
          <5>2. CASE d # c
            <6>1. waiting'[d] = waiting[d] BY <1>0, <3>1, <5>2 DEF LedgerTypeOK
            <6>2. waiting[d] \in Keys \X Fingerprints BY <1>0, <4>1, <6>1 DEF LedgerTypeOK
            <6>3. pending[waiting[d][1]].fp = waiting[d][2]
              BY <4>1, <6>1 DEF LedgerInv, WaitsForItsOwn
            <6>4. waiting[d][1] # k
              BY <3>1, <6>2, <6>3, RequestLedgerAssumption DEF InFlight
            <6>. QED BY <3>2, <6>1, <6>2, <6>3, <6>4
          <5>. QED BY <5>1, <5>2
        <4>. QED BY <4>1 DEF WaitsForItsOwn
      <3>6. ClaimGuards(k)' /\ AnswerGuards(k)'
        BY <3>1, <3>3, <3>4, NoneIsNoMutation DEF LedgerInv, ClaimGuards, AnswerGuards, Known, InFlight
      <3>7. ASSUME NEW j \in Keys \ {k} PROVE ClaimGuards(j)' /\ AnswerGuards(j)'
        BY <3>1, <3>2 DEF LedgerInv, ClaimGuards, AnswerGuards, Known, InFlight
      <3>. QED BY <1>1, <3>5, <3>6, <3>7 DEF LedgerInv
    <2>. QED BY <2>1, <2>2
  <1>. QED BY <1>2, <1>3, <1>4 DEF Receive

LEMMA PerformInv ==
  ASSUME LedgerInv, NEW k \in Keys, Perform(k)
  PROVE  LedgerInv'
  <1>0. LedgerTypeOK BY DEF LedgerInv
  <1>1. pending[k] \in [fp : Fingerprints, phase : {"called", "performed"}]
    BY <1>0 DEF LedgerTypeOK, Perform, Flight, NoFlight
  <1>2. /\ pending' = [pending EXCEPT ![k] = [@ EXCEPT !.phase = "performed"]]
        /\ UNCHANGED <<entry, claims, waiting, given>>
    BY DEF Perform
  <1>3. pending'[k].fp = pending[k].fp /\ pending'[k].phase = "performed"
    BY <1>0, <1>1, <1>2 DEF LedgerTypeOK
  <1>4. \A j \in Keys \ {k} : pending'[j] = pending[j] /\ effects'[j] = effects[j]
    BY <1>0 DEF LedgerTypeOK, Perform
  <1>5. effects'[k] = IF pending[k].fp \in Mutations THEN effects[k] + 1 ELSE effects[k]
    BY <1>0 DEF LedgerTypeOK, Perform
  <1>6. LedgerTypeOK'
    <2>1. pending' \in [Keys -> Flight]
      BY <1>0, <1>1, <1>2 DEF LedgerTypeOK, Flight
    <2>2. effects' \in [Keys -> Nat]
      BY <1>0 DEF LedgerTypeOK, Perform
    <2>. QED BY <1>0, <1>2, <2>1, <2>2 DEF LedgerTypeOK
  <1>7. \A j \in Keys : pending'[j].fp = pending[j].fp
    BY <1>3, <1>4
  <1>8. WaitsForItsOwn'
    <2>1. ASSUME NEW d \in Connections, waiting[d] # Silent
          PROVE  waiting[d][1] \in Keys
      BY <1>0, <2>1 DEF LedgerTypeOK
    <2>. QED BY <1>2, <1>7, <2>1 DEF LedgerInv, WaitsForItsOwn
  <1>9. ASSUME NEW j \in Keys PROVE ClaimGuards(j)' /\ AnswerGuards(j)'
    <2>1. CASE j = k
      <3>1. pending[k].phase = "called" BY DEF Perform
      <3>2. pending[k].fp \in Mutations => effects[k] = 0 /\ effects'[k] = 1
        BY <1>5, <3>1 DEF LedgerInv, ClaimGuards
      <3>3. ClaimGuards(k)'
        BY <1>2, <1>3, <1>5, <3>2, NoneIsNoMutation DEF LedgerInv, ClaimGuards
      <3>4. pending[k].fp \in Fingerprints BY <1>1
      <3>5. InFlight(k) BY <3>4, RequestLedgerAssumption DEF InFlight
      <3>6. entry[k].fp = None BY <3>5 DEF LedgerInv, AnswerGuards, Known
      <3>7. AnswerGuards(k)'
        BY <1>2, <1>3, <1>5, <3>2, <3>6, NoneIsNoMutation DEF LedgerInv, AnswerGuards, Known, InFlight
      <3>. QED BY <2>1, <3>3, <3>7
    <2>2. CASE j # k
      BY <1>2, <1>4, <2>2 DEF LedgerInv, ClaimGuards, AnswerGuards, Known, InFlight
    <2>. QED BY <2>1, <2>2
  <1>. QED BY <1>6, <1>8, <1>9 DEF LedgerInv

LEMMA SettleInv ==
  ASSUME LedgerInv, NEW k \in Keys, NEW response \in Responses,
         Settle(k, response[1], response[2])
  PROVE  LedgerInv'
  <1>. DEFINE f == pending[k].fp
              answer == response[1]
  <1>0. LedgerTypeOK BY DEF LedgerInv
  <1>1. LedgerTypeOK' BY SettleType
  <1>2. f \in Fingerprints /\ answer \in Answers /\ response[2] \in Nat
    BY <1>0, RequestLedgerAssumption DEF LedgerTypeOK, Settle, Flight, NoFlight, Answers
  <1>3. /\ entry'[k] # NoEntry => entry'[k].fp = f /\ entry'[k].answer = answer
        /\ \A j \in Keys \ {k} : entry'[j] # NoEntry =>
             entry'[j].fp = entry[j].fp /\ entry'[j].answer = entry[j].answer
    BY <1>0, <1>2, CacheEntries DEF Settle
  <1>4. pending'[k] = NoFlight /\ \A j \in Keys \ {k} : pending'[j] = pending[j]
    BY <1>0 DEF LedgerTypeOK, Settle
  <1>5. \A j \in Keys : claims'[j].fp = claims[j].fp
    <2>1. CASE f \in Mutations
      <3>1. claims' = [claims EXCEPT ![k] = [@ EXCEPT !.completed = TRUE]]
        BY <2>1 DEF Settle, Complete
      <3>2. claims[k] \in Claim BY <1>0 DEF LedgerTypeOK
      <3>3. [claims[k] EXCEPT !.completed = TRUE].fp = claims[k].fp
        BY <3>2 DEF Claim, NoClaim
      <3>. QED BY <1>0, <3>1, <3>3 DEF LedgerTypeOK
    <2>2. CASE f \notin Mutations
      BY <2>2 DEF Settle, Complete
    <2>. QED BY <2>1, <2>2
  <1>6. ASSUME NEW d \in Connections, d \in Waiting(k)
        PROVE  waiting[d][2] = f
    <2>1. waiting[d] # Silent
      BY <1>6, RequestLedgerAssumption DEF Waiting, Silent
    <2>. QED BY <1>6, <2>1 DEF LedgerInv, WaitsForItsOwn, Waiting
  <1>7. /\ given'[k] \subseteq given[k] \cup {<<f, answer>>}
        /\ f \notin Mutations => given'[k] = given[k]
        /\ \A j \in Keys \ {k} : given'[j] = given[j]
    <2>1. given' = [given EXCEPT ![k] = @ \cup
            {<<g, answer>> : g \in {waiting[d][2] : d \in Waiting(k)} \cap Mutations}]
      BY DEF Settle, Tell
    <2>2. {waiting[d][2] : d \in Waiting(k)} \subseteq {f}
      BY <1>6 DEF Waiting
    <2>3. {<<g, answer>> : g \in {waiting[d][2] : d \in Waiting(k)} \cap Mutations}
            \subseteq {<<f, answer>>}
      BY <2>2
    <2>4. ASSUME f \notin Mutations
          PROVE {<<g, answer>> : g \in {waiting[d][2] : d \in Waiting(k)} \cap Mutations} = {}
      BY <2>2, <2>4
    <2>. HIDE DEF f, answer
    <2>. QED BY <1>0, <2>1, <2>3, <2>4 DEF LedgerTypeOK
  <1>8. effects' = effects BY DEF Settle
  <1>9. WaitsForItsOwn'
    <2>1. ASSUME NEW d \in Connections, waiting'[d] # Silent
          PROVE  pending'[waiting'[d][1]].fp = waiting'[d][2]
      <3>1. waiting'[d] = waiting[d] /\ d \notin Waiting(k)
        BY <2>1 DEF Settle
      <3>2. waiting[d] \in Keys \X Fingerprints
        BY <1>0, <2>1, <3>1 DEF LedgerTypeOK
      <3>3. waiting[d][1] # k BY <3>1 DEF Waiting
      <3>4. pending[waiting[d][1]].fp = waiting[d][2]
        BY <2>1, <3>1 DEF LedgerInv, WaitsForItsOwn
      <3>. QED BY <1>4, <3>1, <3>2, <3>3, <3>4
    <2>. QED BY <2>1 DEF WaitsForItsOwn
  <1>10. ASSUME NEW j \in Keys \ {k}
         PROVE  ClaimGuards(j)' /\ AnswerGuards(j)'
    <2>1. ClaimGuards(j) /\ AnswerGuards(j) BY DEF LedgerInv
    <2>2. entry'[j] = NoEntry \/ (entry'[j].fp = entry[j].fp /\ entry'[j].answer = entry[j].answer)
      BY <1>3
    <2>3. ClaimGuards(j)' BY <1>4, <1>5, <1>8, <2>1 DEF ClaimGuards
    <2>4. AnswerGuards(j)'
      BY <1>4, <1>5, <1>7, <1>8, <2>1, <2>2, NoneIsNoMutation DEF AnswerGuards, Known, InFlight, NoEntry
    <2>. QED BY <2>3, <2>4
  <1>11. ClaimGuards(k)' /\ AnswerGuards(k)'
    <2>1. ClaimGuards(k) /\ AnswerGuards(k) BY DEF LedgerInv
    <2>2. ClaimGuards(k)'
      BY <1>4, <1>5, <1>8, <2>1, NoneIsNoMutation DEF ClaimGuards, NoFlight
    <2>3. f \in Mutations /\ answer = "ok" => effects[k] = 1
      BY <2>1 DEF Settle, ClaimGuards
    <2>4. CASE f \in Mutations
      <3>1. given'[k] \subseteq {<<f, answer>>} /\ claims'[k].fp = f
        BY <1>5, <1>7, <2>1, <2>4 DEF AnswerGuards, ClaimGuards
      <3>2. \A told, other \in given'[k] : told = other /\ (told[2] = "ok" => effects'[k] = 1)
        BY <1>8, <2>3, <2>4, <3>1
      <3>. QED
        BY <1>3, <1>4, <1>8, <2>2, <2>3, <2>4, <3>1, <3>2, NoneIsNoMutation
        DEF AnswerGuards, Known, InFlight, NoEntry, NoFlight
    <2>5. CASE f \notin Mutations
      <3>1. given'[k] = given[k] BY <1>7, <2>5
      <3>. QED
        BY <1>3, <1>4, <1>5, <1>8, <2>1, <2>2, <2>5, <3>1, NoneIsNoMutation
        DEF AnswerGuards, Known, InFlight, NoEntry, NoFlight
    <2>. QED BY <2>4, <2>5
  <1>. QED BY <1>1, <1>9, <1>10, <1>11 DEF LedgerInv

LEMMA DisconnectInv ==
  ASSUME LedgerInv, NEW c \in Connections, Disconnect(c)
  PROVE  LedgerInv'
  <1>1. UNCHANGED <<pending, entry, claims, effects, given>>
    BY DEF Disconnect, history
  <1>2. waiting' = [waiting EXCEPT ![c] = Silent] BY DEF Disconnect
  <1>3. LedgerTypeOK' BY <1>1, <1>2 DEF LedgerInv, LedgerTypeOK
  <1>4. WaitsForItsOwn' BY <1>1, <1>2 DEF LedgerInv, LedgerTypeOK, WaitsForItsOwn
  <1>5. ASSUME NEW j \in Keys PROVE ClaimGuards(j)' /\ AnswerGuards(j)'
    BY <1>1 DEF LedgerInv, ClaimGuards, AnswerGuards, Known, InFlight
  <1>. QED BY <1>3, <1>4, <1>5 DEF LedgerInv

\* The claims survive a crash, and with them what an id was used for.
LEMMA CrashInv ==
  ASSUME LedgerInv, Crash
  PROVE  LedgerInv'
  <1>1. UNCHANGED <<claims, effects, given>> BY DEF Crash, history
  <1>2. LedgerTypeOK'
    BY <1>1 DEF LedgerInv, LedgerTypeOK, Crash, Flight, Entry
  <1>3. WaitsForItsOwn' BY DEF Crash, WaitsForItsOwn
  <1>4. ASSUME NEW j \in Keys PROVE ClaimGuards(j)' /\ AnswerGuards(j)'
    <2>1. pending'[j] = NoFlight /\ entry'[j] = NoEntry BY DEF Crash
    <2>. QED BY <1>1, <2>1, NoneIsNoMutation
         DEF LedgerInv, ClaimGuards, AnswerGuards, Known, InFlight, NoFlight, NoEntry
  <1>. QED BY <1>2, <1>3, <1>4 DEF LedgerInv

LEMMA NextInv == LedgerInv /\ [Next]_vars => LedgerInv'
  <1>. SUFFICES ASSUME LedgerInv, [Next]_vars PROVE LedgerInv'
    OBVIOUS
  <1>1. ASSUME NEW c \in Connections, NEW k \in Keys, NEW f \in Fingerprints, Receive(c, k, f)
        PROVE  LedgerInv'
    BY <1>1, ReceiveInv
  <1>2. ASSUME NEW k \in Keys, Perform(k) PROVE LedgerInv'
    BY <1>2, PerformInv
  <1>3. ASSUME NEW k \in Keys, NEW response \in Responses,
               Settle(k, response[1], response[2])
        PROVE  LedgerInv'
    BY <1>3, SettleInv
  <1>4. ASSUME NEW c \in Connections, Disconnect(c) PROVE LedgerInv'
    BY <1>4, DisconnectInv
  <1>5. CASE Crash BY <1>5, CrashInv
  <1>6. CASE UNCHANGED vars
    BY <1>6 DEF vars, memory, history, LedgerInv, LedgerTypeOK, WaitsForItsOwn, ClaimGuards,
       AnswerGuards, Known, InFlight
  <1>. QED BY <1>1, <1>2, <1>3, <1>4, <1>5, <1>6 DEF Next

-----------------------------------------------------------------------------
(* The theorems.                                                            *)

THEOREM LedgerInvariant == Spec => []LedgerInv
  <1>. QED BY InitInv, NextInv, PTL DEF Spec

\* Every variable keeps its type, however many requests, connections and crashes.
THEOREM LedgerType == Spec => []LedgerTypeOK
  <1>1. LedgerInv => LedgerTypeOK BY DEF LedgerInv
  <1>. QED BY <1>1, LedgerInvariant, PTL

\* A mutation is performed at most once under its id: claimMutationRequest holds against
\* duplicates, evictions and crashes (RequestLedger!AtMostOnce).
THEOREM LedgerAtMostOnce == Spec => []AtMostOnce
  <1>1. LedgerInv => AtMostOnce BY DEF LedgerInv, ClaimGuards, AtMostOnce
  <1>. QED BY <1>1, LedgerInvariant, PTL

\* Whoever hears an answer to a mutation hears the same one, and an "ok" means that it
\* was performed (the request cache of CoreServer).
THEOREM LedgerOneAnswer == Spec => []OneAnswer
  <1>1. LedgerInv => OneAnswer BY DEF LedgerInv, AnswerGuards, OneAnswer
  <1>. QED BY <1>1, LedgerInvariant, PTL

\* The ledger implements MutationLog: every step of it accepts a mutation, performs one,
\* or leaves the log alone.
THEOREM LedgerImplementsLog == Spec => LogSpec
  <1>. DEFINE accepted == [k \in Keys |-> claims[k].fp]
  <1>1. Init => Log!Init
    BY DEF Init, Log!Init, NoClaim
  <1>2. LedgerInv /\ [Next]_vars => [Log!Next]_<<accepted, effects>>
    <2>. SUFFICES ASSUME LedgerInv, [Next]_vars
                  PROVE  Log!Next \/ UNCHANGED <<accepted, effects>>
      OBVIOUS
    <2>0. LedgerTypeOK BY DEF LedgerInv
    <2>1. ASSUME NEW c \in Connections, NEW k \in Keys, NEW f \in Fingerprints, Receive(c, k, f)
          PROVE  Log!Next \/ UNCHANGED <<accepted, effects>>
      <3>1. CASE UNCHANGED <<claims, effects>>
        BY <3>1
      <3>2. CASE f \in Mutations /\ ~Claimed(k) /\ Accept(c, k, f)
        <4>1. claims' = [claims EXCEPT ![k] = [fp |-> f, completed |-> FALSE]] /\ effects' = effects
          BY <3>2 DEF Accept, Dispatch
        <4>2. accepted' = [accepted EXCEPT ![k] = f]
          BY <2>0, <4>1 DEF LedgerTypeOK
        <4>3. accepted[k] = None BY <3>2 DEF Claimed
        <4>. QED BY <3>2, <4>1, <4>2, <4>3 DEF Log!Next, Log!Accept
      <3>. QED BY <2>1, <3>1, <3>2 DEF Receive, Replay, Join, Accept, Dispatch, Refuse
    <2>2. ASSUME NEW k \in Keys, Perform(k)
          PROVE  Log!Next \/ UNCHANGED <<accepted, effects>>
      <3>1. claims' = claims /\ pending[k].phase = "called" BY <2>2 DEF Perform
      <3>2. CASE pending[k].fp \notin Mutations
        BY <2>2, <3>1, <3>2 DEF Perform
      <3>3. CASE pending[k].fp \in Mutations
        <4>1. accepted[k] # None /\ effects[k] = 0
          BY <3>1, <3>3, NoneIsNoMutation DEF LedgerInv, ClaimGuards
        <4>2. effects' = [effects EXCEPT ![k] = 1]
          BY <2>0, <2>2, <3>3, <4>1 DEF Perform, LedgerTypeOK
        <4>. QED BY <3>1, <4>1, <4>2 DEF Log!Next, Log!Perform
      <3>. QED BY <3>2, <3>3
    <2>3. ASSUME NEW k \in Keys, NEW response \in Responses,
                 Settle(k, response[1], response[2])
          PROVE  UNCHANGED <<accepted, effects>>
      <3>1. effects' = effects BY <2>3 DEF Settle
      <3>2. CASE pending[k].fp \in Mutations
        <4>1. claims' = [claims EXCEPT ![k] = [@ EXCEPT !.completed = TRUE]]
          BY <2>3, <3>2 DEF Settle, Complete
        <4>2. claims[k] \in Claim BY <2>0 DEF LedgerTypeOK
        <4>3. [claims[k] EXCEPT !.completed = TRUE].fp = claims[k].fp
          BY <4>2 DEF Claim, NoClaim
        <4>4. \A j \in Keys : claims'[j].fp = claims[j].fp
          BY <2>0, <4>1, <4>3 DEF LedgerTypeOK
        <4>. QED BY <3>1, <4>4
      <3>3. CASE pending[k].fp \notin Mutations
        BY <2>3, <3>1, <3>3 DEF Settle, Complete
      <3>. QED BY <3>2, <3>3
    <2>4. ASSUME NEW c \in Connections, Disconnect(c)
          PROVE  UNCHANGED <<accepted, effects>>
      BY <2>4 DEF Disconnect, history
    <2>5. CASE Crash
      BY <2>5 DEF Crash, history
    <2>6. CASE UNCHANGED vars
      BY <2>6 DEF vars, history
    <2>. QED BY <2>1, <2>2, <2>3, <2>4, <2>5, <2>6 DEF Next
  <1>. QED BY <1>1, <1>2, LedgerInvariant, PTL DEF Spec, LogSpec, Log!Spec

-----------------------------------------------------------------------------
(* The cache.                                                               *)

\* The bytes an entry counts for in the cache.
CachedBytes(o, e, first) ==
    [i \in first..Len(o) |-> IF InCache(e[o[i]]) THEN e[o[i]].bytes ELSE 0]

\* BytesFrom is a sum.
LEMMA BytesAreSum ==
    ASSUME NEW o \in Seq(Keys), NEW e \in [Keys -> Entry], NEW first \in Nat \ {0}
    PROVE  \E f : /\ IsSum(CachedBytes(o, e, first), first..Len(o), f)
                  /\ BytesFrom(o, e, first) = f[first..Len(o)]
  <1> DEFINE S == first..Len(o)
             v == CachedBytes(o, e, first)
             X(i) == IF InCache(e[o[i]]) THEN e[o[i]].bytes ELSE 0
             P(g) == g = [s \in SUBSET S |-> IF s = {} THEN 0
                            ELSE LET x == CHOOSE y \in s : TRUE IN X(x) + g[s \ {x}]]
             sum  == CHOOSE g : P(g)
  <1>1. IsFiniteSet(S)
    BY FS_Interval
  <1>2. v \in [S -> Nat]
    <2>1. \A i \in S : e[o[i]].bytes \in Nat
      BY DEF Entry, NoEntry
    <2>. QED BY <2>1 DEF CachedBytes
  <1>3. PICK f : IsSum(v, S, f)
    BY <1>1, <1>2, SumExists
  <1>4. P(f)
    BY <1>3, PickIsIn DEF IsSum, Pick, CachedBytes
  <1>5. P(sum)
    BY <1>4
  <1>6. BytesFrom(o, e, first) = sum[S]
    BY DEF BytesFrom, MapThenSumSet, MapThenFoldSet
  <1> HIDE DEF sum
  <1>7. AddsUp(v, S, sum)
    BY <1>5, PickIsIn DEF AddsUp, Pick, CachedBytes
  <1>8. IsSum(v, S, sum)
    BY <1>1, <1>2, <1>7, AddingUpIsSum
  <1>. QED BY <1>6, <1>8

\* What the cache holds after an answer was stored: the newest answers that fit.
LEMMA CacheFits ==
    ASSUME LedgerTypeOK, order \in Seq(Keys), Distinct(order),
           NEW k \in Keys, NEW f \in Fingerprints, NEW answer \in Answers, NEW bytes \in Nat,
           Cache(k, f, answer, bytes)
    PROVE  BytesFrom(order', entry', 1) <= CacheBytes
  <1> DEFINE completed == Append(RemoveFirst(order, k), k)
             stored == [entry EXCEPT ![k] =
                         [fp |-> f, answer |-> answer, bytes |-> bytes,
                          place |-> IF bytes <= CacheBytes THEN "cache" ELSE "tombstone"]]
             first == IF Len(completed) > CacheSize THEN Len(completed) - CacheSize + 1 ELSE 1
             left == Remembered(completed)
             J == {j \in 1..Len(completed) : /\ InCache(stored[completed[j]])
                                             /\ BytesFrom(completed, stored, j) <= CacheBytes}
  <1>1. stored \in [Keys -> Entry]
    BY DEF LedgerTypeOK, Entry
  <1>2. entry' \in [Keys -> Entry]
    BY CacheEntries

  <1>3. /\ completed \in Seq(Keys) /\ Distinct(completed) /\ Len(completed) \in Nat
    <2> DEFINE r == RemoveFirst(order, k)
    <2>1. r \in Seq(Keys) /\ Distinct(r) /\ \A i \in 1..Len(r) : r[i] # k
      BY RemoveFirstIs
    <2> HIDE DEF r
    <2>2. Append(r, k) \in Seq(Keys) /\ Len(Append(r, k)) = Len(r) + 1
      BY <2>1
    <2>3. \A i \in 1..Len(r) + 1 : Append(r, k)[i] = IF i <= Len(r) THEN r[i] ELSE k
      BY <2>1
    <2>4. Distinct(Append(r, k))
      BY <2>1, <2>2, <2>3 DEF Distinct
    <2>. QED BY <2>2, <2>4 DEF r
  <1>4. entry' = [other \in Keys |->
                    IF \A i \in DOMAIN left : left[i] # other THEN NoEntry
                    ELSE IF InCache(stored[other]) /\ other \notin Kept(completed, stored)
                    THEN [stored[other] EXCEPT !.place = "tombstone"] ELSE stored[other]]
        /\ order' = left
    BY DEF Cache
  <1> HIDE DEF completed, stored
  <1>5. CacheSize \in Nat /\ CacheBytes \in Nat
    BY RequestLedgerAssumption
  <1>6. /\ left \in Seq(Keys) /\ Len(left) \in Nat /\ first \in 1..Len(completed) + 1
        /\ Len(left) = Len(completed) - first + 1
        /\ \A i \in 1..Len(left) : left[i] = completed[i + first - 1]
    <2>1. first \in 1..Len(completed) + 1
      BY <1>3, <1>5
    <2>2. left = SubSeq(completed, first, Len(completed))
      BY DEF Remembered
    <2> HIDE DEF first
    <2>3. /\ SubSeq(completed, first, Len(completed)) \in Seq(Keys)
          /\ Len(SubSeq(completed, first, Len(completed))) = Len(completed) - first + 1
          /\ \A i \in 1..Len(completed) - first + 1 :
                SubSeq(completed, first, Len(completed))[i] = completed[i + first - 1]
      BY <1>3, <2>1
    <2>4. Len(completed) - first + 1 \in Nat
      BY <1>3, <2>1
    <2>. QED BY <2>1, <2>2, <2>3, <2>4
  <1> HIDE DEF left, first
  <1>7. ASSUME NEW i \in 1..Len(left), InCache(entry'[left[i]])
        PROVE  i + first - 1 \in J /\ entry'[left[i]] = stored[left[i]]
    <2>1. left[i] \in Keys /\ i \in DOMAIN left
      BY <1>6
    <2>2. ~(\A j \in DOMAIN left : left[j] # left[i])
      BY <2>1
    <2>3. entry'[left[i]] =
            IF InCache(stored[left[i]]) /\ left[i] \notin Kept(completed, stored)
            THEN [stored[left[i]] EXCEPT !.place = "tombstone"] ELSE stored[left[i]]
      BY <1>4, <2>1, <2>2
    <2>4. InCache(stored[left[i]]) /\ left[i] \in Kept(completed, stored)
      BY <1>1, <1>7, <2>1, <2>3 DEF InCache, Entry, NoEntry
    <2>5. PICK j \in DOMAIN completed : /\ InCache(stored[completed[j]])
                                        /\ BytesFrom(completed, stored, j) <= CacheBytes
                                        /\ left[i] = completed[j]
      BY <2>4 DEF Kept
    <2>6. j = i + first - 1
      <3>1. i + first - 1 \in 1..Len(completed) /\ j \in 1..Len(completed)
        BY <1>3, <1>6, <2>5
      <3>2. completed[i + first - 1] = completed[j]
        BY <1>6, <2>5
      <3>. QED BY <1>3, <3>1, <3>2 DEF Distinct
    <2>. QED BY <1>3, <2>3, <2>4, <2>5, <2>6
  <1>8. PICK m \in 1..Len(completed) + 1 :
           /\ BytesFrom(completed, stored, m) <= CacheBytes
           /\ \A j \in J : m <= j
    <2>1. CASE J = {}
      <3> DEFINE n == Len(completed) + 1
      <3>1. PICK g : /\ IsSum(CachedBytes(completed, stored, n), n..Len(completed), g)
                     /\ BytesFrom(completed, stored, n) = g[n..Len(completed)]
        BY <1>1, <1>3, BytesAreSum
      <3>2. n..Len(completed) = {}
        BY <1>3
      <3>3. BytesFrom(completed, stored, n) = 0
        BY <3>1, <3>2 DEF IsSum
      <3>. QED BY <1>3, <1>5, <2>1, <3>3
    <2>2. CASE J # {}
      <3>1. J \in SUBSET Nat
        OBVIOUS
      <3>2. PICK n \in J : \A j \in J : n <= j
        BY <2>2, <3>1, LeastNumber
      <3>. QED BY <1>3, <3>2
    <2>. QED BY <2>1, <2>2
  <1> DEFINE v == CachedBytes(left, entry', 1)
             w == CachedBytes(completed, stored, m)
             h == [i \in 1..Len(left) |-> i + first - 1]
  <1>9. PICK fv : IsSum(v, 1..Len(left), fv) /\ BytesFrom(left, entry', 1) = fv[1..Len(left)]
    <2>1. left \in Seq(Keys) /\ 1 \in Nat \ {0}
      BY <1>6
    <2>. QED BY <1>2, <2>1, BytesAreSum
  <1>10. PICK fw : /\ IsSum(w, m..Len(completed), fw)
                   /\ BytesFrom(completed, stored, m) = fw[m..Len(completed)]
    BY <1>1, <1>3, BytesAreSum
  <1>11. v \in [1..Len(left) -> Nat] /\ w \in [m..Len(completed) -> Nat]
    <2>1. \A i \in 1..Len(left) : entry'[left[i]].bytes \in Nat
      BY <1>2, <1>6 DEF Entry, NoEntry
    <2>2. \A i \in m..Len(completed) : stored[completed[i]].bytes \in Nat
      BY <1>1, <1>3, <1>8 DEF Entry, NoEntry
    <2>. QED BY <2>1, <2>2 DEF CachedBytes
  <1>12. ASSUME NEW i \in 1..Len(left), v[i] > 0
         PROVE  h[i] \in m..Len(completed) /\ v[i] <= w[h[i]]
    <2>1. InCache(entry'[left[i]]) /\ v[i] = entry'[left[i]].bytes
      BY <1>12 DEF CachedBytes
    <2>2. h[i] \in J /\ entry'[left[i]] = stored[left[i]] /\ left[i] = completed[h[i]]
      BY <1>6, <1>7, <2>1
    <2>3. h[i] \in m..Len(completed)
      BY <1>3, <1>8, <2>2
    <2>4. w[h[i]] = v[i]
      BY <2>1, <2>2, <2>3 DEF CachedBytes
    <2>. QED BY <1>11, <2>3, <2>4
  <1>13. \A i, j \in 1..Len(left) : h[i] = h[j] => i = j
    BY <1>6
  <1>14. IsFiniteSet(1..Len(left)) /\ IsFiniteSet(m..Len(completed))
    <2>1. Len(left) \in Int /\ Len(completed) \in Int /\ m \in Int /\ 1 \in Int
      BY <1>3, <1>6
    <2>. QED BY <2>1, FS_Interval
  <1> HIDE DEF v, w, h, J
  <1>15. fv[1..Len(left)] <= fw[m..Len(completed)]
    <2> DEFINE S == 1..Len(left)
               T == m..Len(completed)
    <2>1. \A i \in S : v[i] > 0 => h[i] \in T /\ v[i] <= w[h[i]]
      BY <1>12
    <2>2. \A i, j \in S : v[i] > 0 /\ v[j] > 0 /\ h[i] = h[j] => i = j
      BY <1>13
    <2>3. /\ IsFiniteSet(S) /\ IsFiniteSet(T) /\ v \in [S -> Nat] /\ w \in [T -> Nat]
          /\ IsSum(v, S, fv) /\ IsSum(w, T, fw)
      BY <1>9, <1>10, <1>11, <1>14
    <2> HIDE DEF S, T
    <2>4. fv[S] <= fw[T]
      BY <2>1, <2>2, <2>3, SumAtMost
    <2>. QED BY <2>4 DEF S, T
  <1>16. fv[1..Len(left)] \in Nat /\ fw[m..Len(completed)] \in Nat
    BY <1>9, <1>10 DEF IsSum
  <1>. QED BY <1>4, <1>5, <1>8, <1>9, <1>10, <1>15, <1>16

\* The limits of the cache, and that it remembers exactly the requests it keeps in order.
CacheInv ==
    /\ order \in Seq(Keys) /\ Distinct(order)
    /\ CacheWithinBounds

\* The end of a dispatch keeps the cache within its limits.
LEMMA CacheBounds ==
    ASSUME LedgerInv, CacheInv, NEW k \in Keys, NEW response \in Responses,
           Settle(k, response[1], response[2])
    PROVE  CacheInv'
  <1> DEFINE f == pending[k].fp
             completed == Append(RemoveFirst(order, k), k)
             left == Remembered(completed)
             first == IF Len(completed) > CacheSize THEN Len(completed) - CacheSize + 1 ELSE 1
  <1>0. LedgerTypeOK
    BY DEF LedgerInv
  <1>1. f \in Fingerprints /\ response[1] \in Answers /\ response[2] \in Nat
    BY <1>0, RequestLedgerAssumption DEF LedgerTypeOK, Settle, Flight, NoFlight, Answers
  <1>2. Cache(k, f, response[1], response[2]) /\ pending' = [pending EXCEPT ![k] = NoFlight]
    BY DEF Settle
  <1>3. BytesFrom(order', entry', 1) <= CacheBytes
    BY <1>0, <1>1, <1>2, CacheFits DEF CacheInv
  <1>4. /\ completed \in Seq(Keys) /\ Distinct(completed) /\ Len(completed) \in Nat
        /\ \A i \in 1..Len(completed) : completed[i] = k \/ Known(completed[i])
    <2> DEFINE r == RemoveFirst(order, k)
    <2>1. /\ r \in Seq(Keys) /\ Distinct(r) /\ \A i \in 1..Len(r) : r[i] # k
          /\ \A i \in 1..Len(r) : \E j \in 1..Len(order) : order[j] = r[i]
      BY RemoveFirstIs DEF CacheInv
    <2> HIDE DEF r
    <2>2. Append(r, k) \in Seq(Keys) /\ Len(Append(r, k)) = Len(r) + 1
      BY <2>1
    <2>3. \A i \in 1..Len(r) + 1 : Append(r, k)[i] = IF i <= Len(r) THEN r[i] ELSE k
      BY <2>1
    <2>4. Distinct(Append(r, k))
      BY <2>1, <2>2, <2>3 DEF Distinct
    <2>5. \A i \in 1..Len(r) : Known(r[i])
      BY <2>1 DEF CacheInv, CacheWithinBounds
    <2>. QED BY <2>2, <2>3, <2>4, <2>5 DEF r
  <1>5. order' = left /\ CacheSize \in Nat
    BY <1>2, RequestLedgerAssumption DEF Cache
  <1> HIDE DEF completed
  <1>6. /\ left \in Seq(Keys) /\ Len(left) \in Nat /\ first \in Nat \ {0} /\ Len(left) <= CacheSize
        /\ Len(left) = Len(completed) - first + 1
        /\ \A i \in 1..Len(left) : /\ left[i] = completed[i + first - 1]
                                   /\ i + first - 1 \in 1..Len(completed)
    <2>1. first \in 1..Len(completed) + 1 /\ Len(completed) - first + 1 <= CacheSize
      BY <1>4, <1>5
    <2>2. left = SubSeq(completed, first, Len(completed))
      BY DEF Remembered
    <2> HIDE DEF first
    <2>3. /\ SubSeq(completed, first, Len(completed)) \in Seq(Keys)
          /\ Len(SubSeq(completed, first, Len(completed))) = Len(completed) - first + 1
          /\ \A i \in 1..Len(completed) - first + 1 :
                SubSeq(completed, first, Len(completed))[i] = completed[i + first - 1]
      BY <1>4, <2>1
    <2>4. /\ Len(completed) - first + 1 \in Nat /\ first \in Nat \ {0}
          /\ \A i \in 1..Len(completed) - first + 1 : i + first - 1 \in 1..Len(completed)
      BY <1>4, <2>1
    <2>. QED BY <2>1, <2>2, <2>3, <2>4
  <1> HIDE DEF left, first
  <1>7. Distinct(left)
    <2>1. ASSUME NEW i \in 1..Len(left), NEW j \in 1..Len(left), left[i] = left[j]
          PROVE  i = j
      <3>1. i + first - 1 = j + first - 1
        BY <1>4, <1>6, <2>1 DEF Distinct
      <3>. QED BY <1>6, <3>1
    <2>. QED BY <2>1 DEF Distinct
  <1>8. \A i \in 1..Len(left) : left[i] = k \/ Known(left[i])
    BY <1>4, <1>6
  <1>9. ASSUME NEW other \in Keys
        PROVE  Known(other)' <=> \E i \in 1..Len(left) : left[i] = other
    <2> DEFINE stored == [entry EXCEPT ![k] =
                 [fp |-> f, answer |-> response[1], bytes |-> response[2],
                  place |-> IF response[2] <= CacheBytes THEN "cache" ELSE "tombstone"]]
    <2>1. entry'[other] =
            IF \A i \in DOMAIN left : left[i] # other THEN NoEntry
            ELSE IF InCache(stored[other]) /\ other \notin Kept(completed, stored)
            THEN [stored[other] EXCEPT !.place = "tombstone"] ELSE stored[other]
      BY <1>2 DEF Cache, completed, left
    <2>2. DOMAIN left = 1..Len(left)
      BY <1>6
    <2>3. CASE \A i \in 1..Len(left) : left[i] # other
      <3>1. entry'[other] = NoEntry
        BY <2>1, <2>2, <2>3
      <3>. QED BY <2>3, <3>1 DEF Known, NoEntry
    <2>4. CASE ~\A i \in 1..Len(left) : left[i] # other
      <3>1. stored[other].fp # None /\ stored[other] \in Entry
        <4>1. CASE other = k
          BY <1>0, <1>1, <4>1, RequestLedgerAssumption DEF LedgerTypeOK, Entry
        <4>2. CASE other # k
          <5>1. Known(other)
            BY <1>8, <2>4, <4>2
          <5>. QED BY <1>0, <4>2, <5>1 DEF LedgerTypeOK, Known
        <4>. QED BY <4>1, <4>2
      <3> HIDE DEF stored
      <3>2. entry'[other] = stored[other] \/ entry'[other] = [stored[other] EXCEPT !.place = "tombstone"]
        BY <2>1, <2>2, <2>4
      <3>3. [stored[other] EXCEPT !.place = "tombstone"].fp = stored[other].fp
        BY <3>1 DEF Entry, NoEntry
      <3>. QED BY <2>4, <3>1, <3>2, <3>3 DEF Known
    <2>. QED BY <2>3, <2>4
  <1>10. {other \in Keys : Known(other)'} = {left[i] : i \in DOMAIN left}
    <2>1. DOMAIN left = 1..Len(left) /\ \A i \in 1..Len(left) : left[i] \in Keys
      BY <1>6
    <2>. QED BY <1>9, <2>1
  <1>11. \A other \in Keys : ~(Known(other)' /\ InFlight(other)')
    <2>1. ASSUME NEW other \in Keys, Known(other)', InFlight(other)'
          PROVE  FALSE
      <3>1. other # k /\ InFlight(other)
        BY <1>0, <1>2, <2>1 DEF LedgerTypeOK, InFlight, NoFlight
      <3>2. Known(other)
        BY <1>8, <1>9, <2>1, <3>1
      <3>. QED BY <3>1, <3>2 DEF CacheInv, CacheWithinBounds
    <2>. QED BY <2>1
  <1>. QED BY <1>3, <1>5, <1>6, <1>7, <1>10, <1>11 DEF CacheInv, CacheWithinBounds

\* So does what neither stores nor forgets an answer.
LEMMA CacheStays ==
    ASSUME LedgerInv, CacheInv, UNCHANGED <<order, entry>>,
           \A k \in Keys : InFlight(k)' => InFlight(k) \/ ~Known(k)
    PROVE  CacheInv'
  <1>1. \A k \in Keys : Known(k)' = Known(k)
    BY DEF Known
  <1>2. BytesFrom(order', entry', 1) = BytesFrom(order, entry, 1)
    OBVIOUS
  <1>. QED BY <1>1, <1>2 DEF CacheInv, CacheWithinBounds, Known

LEMMA CacheInitInv == Init => CacheInv
  <1> SUFFICES ASSUME Init PROVE CacheInv
    OBVIOUS
  <1>1. order = <<>> /\ entry \in [Keys -> Entry] /\ \A k \in Keys : ~Known(k)
    BY DEF Init, Entry, Known, NoEntry
  <1>2. PICK g : IsSum(CachedBytes(order, entry, 1), 1..Len(order), g)
                 /\ BytesFrom(order, entry, 1) = g[1..Len(order)]
    <2>1. order \in Seq(Keys) /\ 1 \in Nat \ {0}
      BY <1>1
    <2>. QED BY <1>1, <2>1, BytesAreSum
  <1>3. 1..Len(order) = {} /\ Len(order) = 0 /\ DOMAIN order = {} /\ order \in Seq(Keys)
    BY <1>1
  <1>4. BytesFrom(order, entry, 1) = 0
    BY <1>2, <1>3 DEF IsSum
  <1>5. CacheWithinBounds
    BY <1>1, <1>3, <1>4, RequestLedgerAssumption DEF CacheWithinBounds
  <1>. QED BY <1>3, <1>5 DEF CacheInv, Distinct

LEMMA CacheNextInv == LedgerInv /\ CacheInv /\ [Next]_vars => CacheInv'
  <1> SUFFICES ASSUME LedgerInv, CacheInv, [Next]_vars PROVE CacheInv'
    OBVIOUS
  <1>0. LedgerTypeOK
    BY DEF LedgerInv
  <1>1. ASSUME NEW c \in Connections, NEW k \in Keys, NEW f \in Fingerprints, Receive(c, k, f)
        PROVE  CacheInv'
    <2>1. UNCHANGED <<order, entry>>
      BY <1>1 DEF Receive, Replay, Join, Accept, Dispatch, memory
    <2>2. pending' = pending \/ (~Known(k) /\ pending' = [pending EXCEPT ![k] = [fp |-> f, phase |-> "called"]])
      BY <1>1 DEF Receive, Replay, Join, Accept, Dispatch, memory
    <2>. QED BY <1>0, <2>1, <2>2, CacheStays DEF InFlight, LedgerTypeOK
  <1>2. ASSUME NEW k \in Keys, Perform(k) PROVE CacheInv'
    <2>1. UNCHANGED <<order, entry>> /\ pending' = [pending EXCEPT ![k].phase = "performed"]
      BY <1>2 DEF Perform
    <2>2. pending[k] \in Flight /\ pending[k] # NoFlight
      BY <1>0, <1>2 DEF Perform, LedgerTypeOK, NoFlight
    <2>3. pending'[k].fp = pending[k].fp
      BY <1>0, <2>1, <2>2 DEF LedgerTypeOK, Flight
    <2>4. \A j \in Keys : InFlight(j)' => InFlight(j)
      BY <1>0, <2>1, <2>3 DEF LedgerTypeOK, InFlight
    <2>. QED BY <2>1, <2>4, CacheStays
  <1>3. ASSUME NEW k \in Keys, NEW response \in Responses,
               Settle(k, response[1], response[2])
        PROVE  CacheInv'
    BY <1>3, CacheBounds
  <1>4. ASSUME NEW c \in Connections, Disconnect(c) PROVE CacheInv'
    BY <1>4, CacheStays DEF Disconnect, InFlight
  <1>5. CASE Crash
    <2>1. order' = <<>> /\ entry' \in [Keys -> Entry] /\ \A k \in Keys : ~Known(k)'
      BY <1>5 DEF Crash, Entry, Known, NoEntry
    <2>2. PICK g : IsSum(CachedBytes(order', entry', 1), 1..Len(order'), g)
                   /\ BytesFrom(order', entry', 1) = g[1..Len(order')]
      <3>1. order' \in Seq(Keys) /\ 1 \in Nat \ {0}
        BY <2>1
      <3>. QED BY <2>1, <3>1, BytesAreSum
    <2>3. 1..Len(order') = {} /\ Len(order') = 0 /\ DOMAIN order' = {} /\ order' \in Seq(Keys)
      BY <2>1
    <2>4. BytesFrom(order', entry', 1) = 0
      BY <2>2, <2>3 DEF IsSum
    <2>5. CacheWithinBounds'
      BY <2>1, <2>3, <2>4, RequestLedgerAssumption DEF CacheWithinBounds
    <2>. QED BY <2>3, <2>5 DEF CacheInv, Distinct
  <1>6. CASE UNCHANGED vars
    BY <1>6, CacheStays DEF vars, memory, InFlight
  <1>. QED BY <1>1, <1>2, <1>3, <1>4, <1>5, <1>6 DEF Next

\* The cache of answers never exceeds its two limits, and remembers exactly the requests
\* it keeps in order, none of which is in flight, for all limits and sizes of answers
\* (CoreServer.#cache).
THEOREM CacheHolds == Spec => []CacheWithinBounds
  <1>1. CacheInv => CacheWithinBounds
    BY DEF CacheInv
  <1>. QED BY <1>1, CacheInitInv, CacheNextInv, LedgerInvariant, PTL DEF Spec
=============================================================================
