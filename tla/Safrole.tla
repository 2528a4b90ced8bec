-------------------------------- MODULE Safrole --------------------------------
(***************************************************************************)
(* safrole::transition: one block of the block production protocol.  Slots *)
(* are grouped in epochs of E; during the first Y slots of an epoch blocks *)
(* carry tickets, whose E lowest seal the blocks of the next epoch.        *)
(*                                                                         *)
(* Data: a ticket is its identifier, a number; 0 stands for an envelope    *)
(* whose proof does not verify.  The entropy accumulator is the slot of    *)
(* the block that mixed it last, which no other block shares.  Hashes,     *)
(* keys and rings are constructors.                                        *)
(***************************************************************************)
EXTENDS Integers, Sequences, FiniteSets, FiniteSetsExt, SequencesExt

CONSTANTS E,              \* config.epoch_length
          N,              \* config.tickets_per_validator
          K,              \* tickets in one extrinsic at most
          MaxSlot,        \* bound: the last slot
          Ids,            \* the identifiers of tickets
          ValidatorSets,  \* sequences of validators that may be scheduled
          Genesis,        \* the first of them
          Offenders,      \* validators that may offend
          NullValidator

Y == (E * 5) \div 6

ASSUME SafroleAssumption ==
  /\ E \in Nat \ {0} /\ N \in Nat /\ K \in Nat /\ MaxSlot \in Nat
  /\ Ids \subseteq Nat \ {0}
  /\ Genesis \in ValidatorSets
  /\ NullValidator \notin Offenders

VARIABLES
  tau, eta, lambda, kappa, gamma_k, iota, gamma_a, gamma_s, gamma_z, post_offenders,
  epoch_mark,   \* output: the last epoch mark; an optional is a sequence
  tickets_mark, \* output: the tickets mark given in this epoch
  accepted      \* history: the tickets accepted in this epoch

state == <<tau, eta, lambda, kappa, gamma_k, iota, gamma_a, gamma_s, gamma_z,
           post_offenders>>
vars == <<state, epoch_mark, tickets_mark, accepted>>

------------------------------------------------------------------------------
epoch(slot) == slot \div E
phase(slot) == slot % E

\* The entry index of a ticket goes into its identifier.
attempt(id) == id % (N + 1)

bandersnatch_keys(k) == [i \in DOMAIN k |-> <<"bandersnatch", k[i]>>]
mathcal_O(keys) == <<"ring", keys>>

\* Offenders are replaced by the null key.
phi_Keep(k) == k
phi(k) == [i \in DOMAIN k |-> IF k[i] \in post_offenders THEN NullValidator ELSE k[i]]

\* The accumulator keeps the E lowest tickets.
lowest_Highest(a) == IF Cardinality(a) > E THEN a \ {Min(a)} ELSE a
lowest(a) == IF Cardinality(a) > E THEN a \ {Max(a)} ELSE a

\* One ticket of the extrinsic: the checks, in their order.
ticketError(s, id) ==
  CASE id = 0 -> "bad_ticket_proof"
    [] id # 0 /\ attempt(id) >= N -> "bad_ticket_attempt"
    [] id # 0 /\ attempt(id) < N /\ id \in s.a -> "duplicate_ticket"
    [] id # 0 /\ attempt(id) < N /\ id \notin s.a /\ id < s.prev -> "bad_ticket_order"
    [] OTHER -> "ok"

submit(s, id) ==
  IF s.error # "ok" THEN s
  ELSE IF ticketError(s, id) # "ok" THEN [s EXCEPT !.error = ticketError(s, id)]
  ELSE [error |-> "ok", a |-> lowest(s.a \cup {id}), prev |-> id]

\* The loop over the extrinsic, from the accumulator a.
submitAll(a, extrinsic) ==
  IF extrinsic = <<>> THEN [error |-> "ok", a |-> a, prev |-> 0]
  ELSE FoldLeft(submit, [error |-> "ok", a |-> a, prev |-> 0], extrinsic)

\* Outside-in: the lowest, the highest, the second lowest, ...
Z(a) ==
  LET s == SetToSortSeq(a, <)
  IN  [i \in 1..Len(s) |-> IF i % 2 = 1 THEN s[(i + 1) \div 2] ELSE s[Len(s) + 1 - i \div 2]]

\* The fallback keys are drawn from the validators by the entropy.
F(r, k) == [keys |-> bandersnatch_keys(k), by |-> r]

------------------------------------------------------------------------------
changes(slot) == epoch(slot) # epoch(tau)

\* The accumulator a block starts from: empty in a new epoch.
accumulator(slot) == IF changes(slot) THEN {} ELSE gamma_a

\* Tickets come before the slot Y of an epoch.
closed(slot) == phase(slot) >= Y

blockError(slot, extrinsic) ==
  IF slot <= tau THEN "bad_slot"
  ELSE IF Len(extrinsic) > K THEN "logic_error"
  ELSE IF closed(slot) /\ extrinsic # <<>> THEN "unexpected_ticket"
  ELSE submitAll(accumulator(slot), extrinsic).error

\* The tickets seal the next epoch only if there are E of them and the contest was
\* closed in the epoch before.
sealed_Open(slot) == epoch(slot) = epoch(tau) + 1 /\ Cardinality(gamma_a) = E
sealed(slot) ==
  epoch(slot) = epoch(tau) + 1 /\ phase(tau) >= Y /\ Cardinality(gamma_a) = E

markDue(slot) ==
  /\ epoch(slot) = epoch(tau) /\ phase(tau) < Y /\ Y <= phase(slot)
  /\ Cardinality(gamma_a) = E

\* The new epoch's seals, randomness and validators.
rotate_Early(slot) ==
  /\ eta' = <<slot, eta[1], eta[2], eta[3]>>
  /\ gamma_k' = phi(iota)
  /\ kappa' = gamma_k'
  /\ lambda' = kappa
  /\ gamma_z' = mathcal_O(bandersnatch_keys(gamma_k'))
rotate(slot) ==
  /\ eta' = <<slot, eta[1], eta[2], eta[3]>>
  /\ gamma_k' = phi(iota)
  /\ kappa' = gamma_k
  /\ lambda' = kappa
  /\ gamma_z' = mathcal_O(bandersnatch_keys(gamma_k'))

\* A block that is rejected leaves the state as it is.
reject(slot, extrinsic) ==
  /\ blockError(slot, extrinsic) # "ok"
  /\ UNCHANGED vars

sameEpoch(slot, extrinsic) ==
  /\ blockError(slot, extrinsic) = "ok"
  /\ ~changes(slot)
  /\ eta' = [eta EXCEPT ![1] = slot]
  /\ tickets_mark' = IF markDue(slot) THEN <<Z(gamma_a)>> ELSE tickets_mark
  /\ accepted' = accepted \cup Range(extrinsic)
  /\ UNCHANGED <<lambda, kappa, gamma_k, gamma_s, gamma_z, epoch_mark>>

newEpoch(slot, extrinsic) ==
  /\ blockError(slot, extrinsic) = "ok"
  /\ changes(slot)
  /\ rotate(slot)
  /\ gamma_s' = IF sealed(slot) THEN [tickets |-> Z(gamma_a)] ELSE F(eta'[3], kappa')
  /\ epoch_mark' = <<[entropy |-> eta'[2], tickets_entropy |-> eta'[3],
                      validators |-> bandersnatch_keys(gamma_k')]>>
  /\ tickets_mark' = <<>>
  /\ accepted' = Range(extrinsic)

accept(slot, extrinsic) ==
  /\ sameEpoch(slot, extrinsic) \/ newEpoch(slot, extrinsic)
  /\ tau' = slot
  /\ gamma_a' = submitAll(accumulator(slot), extrinsic).a
  /\ UNCHANGED <<iota, post_offenders>>

transition(slot, extrinsic) == reject(slot, extrinsic) \/ accept(slot, extrinsic)

\* The other parts of the chain schedule validators and report offenders.
schedule(k) ==
  /\ iota' = k
  /\ UNCHANGED <<tau, eta, lambda, kappa, gamma_k, gamma_a, gamma_s, gamma_z,
                 post_offenders, epoch_mark, tickets_mark, accepted>>

offend(v) ==
  /\ post_offenders' = post_offenders \cup {v}
  /\ UNCHANGED <<tau, eta, lambda, kappa, gamma_k, iota, gamma_a, gamma_s, gamma_z,
                 epoch_mark, tickets_mark, accepted>>

------------------------------------------------------------------------------
Init ==
  /\ tau = 0
  /\ eta = <<0, 0, 0, 0>>
  /\ lambda = Genesis /\ kappa = Genesis /\ gamma_k = Genesis /\ iota = Genesis
  /\ gamma_a = {}
  /\ gamma_s = F(0, Genesis)
  /\ gamma_z = mathcal_O(bandersnatch_keys(Genesis))
  /\ post_offenders = {}
  /\ epoch_mark = <<>>
  /\ tickets_mark = <<>>
  /\ accepted = {}

\* Any extrinsic, and one that is too long.
Extrinsics == UNION {[1..n -> Ids \cup {0}] : n \in 0..K} \cup {[i \in 1..K + 1 |-> 0]}

Next ==
  \/ \E slot \in 0..MaxSlot, extrinsic \in Extrinsics : transition(slot, extrinsic)
  \/ \E k \in ValidatorSets : schedule(k)
  \/ \E v \in Offenders : offend(v)

Spec == Init /\ [][Next]_vars

------------------------------------------------------------------------------
TypeOK ==
  /\ tau \in 0..MaxSlot
  /\ eta \in [1..4 -> 0..MaxSlot]
  /\ gamma_a \subseteq Ids
  /\ post_offenders \subseteq Offenders
  /\ tickets_mark \in Seq(Seq(Ids))
  /\ accepted \subseteq Ids

\* The accumulator holds the E lowest of all the tickets accepted in the epoch,
\* whatever blocks they came in and in whatever order the blocks evicted others.
LowestTickets ==
  /\ Cardinality(gamma_a) = IF Cardinality(accepted) > E THEN E ELSE Cardinality(accepted)
  /\ gamma_a \subseteq accepted
  /\ \A t \in gamma_a, u \in accepted \ gamma_a : t < u

\* The winning tickets that a block announces are the ones that seal the next epoch,
\* and tickets seal an epoch only if they were announced in the one before: nothing
\* carries over a skipped epoch or from a contest that no block saw closed.
MarkFulfilled ==
  [][epoch(tau') # epoch(tau) =>
       IF tickets_mark # <<>> /\ epoch(tau') = epoch(tau) + 1
       THEN gamma_s' = [tickets |-> tickets_mark[1]]
       ELSE gamma_s' = F(eta'[3], kappa')]_vars

\* The validators that the mark of an epoch announces are the ones that author the
\* next epoch, and the entropy it announces for the tickets stays what it said.
EpochMarkFulfilled ==
  [][epoch_mark # <<>> =>
       /\ epoch(tau') # epoch(tau) => bandersnatch_keys(kappa') = epoch_mark[1].validators
       /\ epoch(tau') = epoch(tau) => eta'[3] = epoch_mark[1].tickets_entropy]_vars

\* A validator known to offend when an epoch starts is not in the ring of the epoch's
\* tickets, and so not among the authors of the next (EpochMarkFulfilled).
OffendersExcluded ==
  [][epoch(tau') # epoch(tau) =>
       \A v \in post_offenders :
         /\ \A i \in DOMAIN gamma_k' : gamma_k'[i] # v
         /\ gamma_z' = mathcal_O(bandersnatch_keys(gamma_k'))]_vars

\* The state of safrole after every block, good or bad.
SafroleInv == TypeOK /\ LowestTickets
==============================================================================
