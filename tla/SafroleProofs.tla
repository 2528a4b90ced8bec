----------------------------- MODULE SafroleProofs -----------------------------
(***************************************************************************)
(* What the marks announce comes true, for every epoch length, any number  *)
(* of tickets, validators and offenders.  What the loop over the tickets   *)
(* leaves in the accumulator takes an induction over the extrinsic and is  *)
(* left to TLC; here it matters only that no ticket is accepted late.      *)
(***************************************************************************)
EXTENDS Safrole, FiniteSetTheorems, TLAPS

\* A mark is out exactly when the contest is closed with enough tickets, and then it
\* is what those tickets give.
MarkInv ==
  /\ tau \in Nat
  /\ tickets_mark # <<>> <=> phase(tau) >= Y /\ Cardinality(gamma_a) = E
  /\ tickets_mark # <<>> => tickets_mark = <<Z(gamma_a)>>

\* Later slots of one epoch have later phases.
LEMMA PhaseGrows ==
  ASSUME NEW s \in Nat, NEW t \in Nat, s < t, epoch(s) = epoch(t)
  PROVE  phase(s) < phase(t)
<1>1. E \in Nat \ {0}  BY SafroleAssumption DEF SafroleAssumption
<1>2. s \div E = t \div E  BY DEF epoch
<1>3. s % E < t % E  BY <1>1, <1>2
<1> QED  BY <1>3 DEF phase

\* A block that is accepted comes in a later slot, and after the close of the contest
\* it carries no tickets and leaves the accumulator as it found it.
LEMMA AcceptedBlock ==
  ASSUME tau \in Nat, NEW slot \in Nat, NEW extrinsic, accept(slot, extrinsic)
  PROVE  /\ slot > tau /\ tau' = slot
         /\ phase(slot) >= Y => gamma_a' = accumulator(slot)
<1>1. blockError(slot, extrinsic) = "ok"  BY DEF accept, sameEpoch, newEpoch
<1>2. ~(slot <= tau)  BY <1>1 DEF blockError
<1>3. phase(slot) >= Y => extrinsic = <<>>  BY <1>1 DEF blockError, closed
<1>4. extrinsic = <<>> => submitAll(accumulator(slot), extrinsic).a = accumulator(slot)
  BY DEF submitAll
<1> QED  BY <1>2, <1>3, <1>4 DEF accept

------------------------------------------------------------------------------
LEMMA MarkInvInit == Init => MarkInv
<1> SUFFICES ASSUME Init PROVE MarkInv  OBVIOUS
<1>1. tau = 0 /\ gamma_a = {} /\ tickets_mark = <<>>  BY DEF Init
<1>2. Cardinality({}) = 0  BY FS_EmptySet
<1> QED  BY <1>1, <1>2, SafroleAssumption DEF MarkInv, SafroleAssumption

\* Only an accepted block touches the slot, the accumulator and the mark.
LEMMA MarkInvNext == MarkInv /\ [Next]_vars => MarkInv'
<1> SUFFICES ASSUME MarkInv, [Next]_vars PROVE MarkInv'  OBVIOUS
<1>1. E \in Nat \ {0} /\ Cardinality({}) = 0
  BY FS_EmptySet, SafroleAssumption DEF SafroleAssumption
<1>2. ASSUME NEW slot \in 0..MaxSlot, NEW extrinsic \in Extrinsics,
             accept(slot, extrinsic)
      PROVE  MarkInv'
  <2>1. slot \in Nat /\ tau \in Nat
    BY SafroleAssumption DEF MarkInv, SafroleAssumption
  <2>2. /\ slot > tau /\ tau' = slot
        /\ phase(slot) >= Y => gamma_a' = accumulator(slot)
    BY <1>2, <2>1, AcceptedBlock
  <2>3. CASE sameEpoch(slot, extrinsic)
    <3>1. epoch(tau) = epoch(slot) /\ accumulator(slot) = gamma_a
      BY <2>3 DEF sameEpoch, changes, accumulator
    <3>2. phase(tau) < phase(slot) /\ phase(tau) \in Int /\ phase(slot) \in Int
      BY <1>1, <2>1, <2>2, <3>1, PhaseGrows, SMTT(20) DEF phase
    <3>3. Y \in Int  BY <1>1 DEF Y
    <3>4. tickets_mark' = IF markDue(slot) THEN <<Z(gamma_a)>> ELSE tickets_mark
      BY <2>3 DEF sameEpoch
    <3>5. CASE phase(slot) >= Y
      <4>1. gamma_a' = gamma_a  BY <2>2, <3>1, <3>5
      <4>2. markDue(slot) <=> phase(tau) < Y /\ Cardinality(gamma_a) = E
        BY <3>1, <3>3, <3>2, <3>5 DEF markDue
      <4> QED  BY <2>1, <2>2, <3>2, <3>3, <3>4, <3>5, <4>1, <4>2, SMTT(20) DEF MarkInv
    <3>6. CASE ~(phase(slot) >= Y)
      <4>1. ~markDue(slot)  BY <3>2, <3>3, <3>6 DEF markDue
      <4>2. tickets_mark = <<>>  BY <3>2, <3>3, <3>6 DEF MarkInv
      <4> QED  BY <2>1, <2>2, <3>4, <3>6, <4>1, <4>2 DEF MarkInv
    <3> QED  BY <3>5, <3>6
  <2>4. CASE newEpoch(slot, extrinsic)
    <3>1. tickets_mark' = <<>> /\ accumulator(slot) = {}
      BY <2>4 DEF newEpoch, accumulator
    <3>2. phase(slot) >= Y => Cardinality(gamma_a') # E  BY <1>1, <2>2, <3>1
    <3> QED  BY <2>1, <2>2, <3>1, <3>2 DEF MarkInv
  <2> QED  BY <1>2, <2>3, <2>4 DEF accept
<1>3. ASSUME UNCHANGED <<tau, gamma_a, tickets_mark>> PROVE MarkInv'
  BY <1>3 DEF MarkInv
<1>4. CASE \E slot \in 0..MaxSlot, extrinsic \in Extrinsics : transition(slot, extrinsic)
  BY <1>2, <1>3, <1>4 DEF transition, reject, vars, state
<1>5. CASE \E k \in ValidatorSets : schedule(k)  BY <1>3, <1>5 DEF schedule
<1>6. CASE \E v \in Offenders : offend(v)  BY <1>3, <1>6 DEF offend
<1>7. CASE UNCHANGED vars  BY <1>3, <1>7 DEF vars, state
<1> QED  BY <1>4, <1>5, <1>6, <1>7 DEF Next

\* A step that changes the epoch is a block that does.
LEMMA EpochChange ==
  ASSUME MarkInv, [Next]_vars, epoch(tau') # epoch(tau)
  PROVE  \E slot \in 0..MaxSlot, extrinsic \in Extrinsics :
           accept(slot, extrinsic) /\ newEpoch(slot, extrinsic) /\ tau' = slot
<1>1. tau' # tau  OBVIOUS
<1>2. PICK slot \in 0..MaxSlot, extrinsic \in Extrinsics : accept(slot, extrinsic)
  BY <1>1 DEF Next, transition, reject, schedule, offend, vars, state
<1>3. tau' = slot  BY <1>2 DEF accept
<1>4. ~sameEpoch(slot, extrinsic)  BY <1>3 DEF sameEpoch, changes
<1> QED  BY <1>2, <1>3, <1>4 DEF accept

\* The winning tickets announced are those that seal the next epoch; an epoch without
\* an announcement, or after a skipped one, is sealed by the fallback keys.
THEOREM WinningTicketsSeal == Spec => MarkFulfilled
<1> DEFINE A ==
      epoch(tau') # epoch(tau) =>
        IF tickets_mark # <<>> /\ epoch(tau') = epoch(tau) + 1
        THEN gamma_s' = [tickets |-> tickets_mark[1]]
        ELSE gamma_s' = F(eta'[3], kappa')
<1>1. MarkInv /\ [Next]_vars => [A]_vars
  <2> SUFFICES ASSUME MarkInv, [Next]_vars, epoch(tau') # epoch(tau)
               PROVE  IF tickets_mark # <<>> /\ epoch(tau') = epoch(tau) + 1
                      THEN gamma_s' = [tickets |-> tickets_mark[1]]
                      ELSE gamma_s' = F(eta'[3], kappa')
    OBVIOUS
  <2>1. PICK slot \in 0..MaxSlot, extrinsic \in Extrinsics :
          newEpoch(slot, extrinsic) /\ tau' = slot
    BY EpochChange
  <2>2. gamma_s' = IF sealed(slot) THEN [tickets |-> Z(gamma_a)] ELSE F(eta'[3], kappa')
    BY <2>1 DEF newEpoch
  <2>3. sealed(slot) <=> tickets_mark # <<>> /\ epoch(tau') = epoch(tau) + 1
    BY <2>1 DEF sealed, MarkInv
  <2>4. tickets_mark # <<>> => tickets_mark[1] = Z(gamma_a)  BY DEF MarkInv
  <2> QED  BY <2>2, <2>3, <2>4
<1> QED  BY <1>1, MarkInvInit, MarkInvNext, PTL DEF Spec, MarkFulfilled

------------------------------------------------------------------------------
\* The last mark names the validators of the next epoch and the entropy of this one's
\* tickets.
EpochInv ==
  /\ eta \in [1..4 -> Nat]
  /\ post_offenders \subseteq Offenders
  /\ epoch_mark # <<>> =>
       /\ epoch_mark[1].validators = bandersnatch_keys(gamma_k)
       /\ epoch_mark[1].tickets_entropy = eta[3]

LEMMA EpochInvInit == Init => EpochInv
BY DEF Init, EpochInv

\* What an accepted block does to the entropy.
LEMMA EntropyStep ==
  ASSUME EpochInv, NEW slot \in Nat, NEW extrinsic, accept(slot, extrinsic)
  PROVE  /\ eta' \in [1..4 -> Nat]
         /\ sameEpoch(slot, extrinsic) => eta'[3] = eta[3]
<1>1. CASE sameEpoch(slot, extrinsic)
  BY <1>1 DEF EpochInv, sameEpoch
<1>2. CASE newEpoch(slot, extrinsic)
  <2>1. eta' = <<slot, eta[1], eta[2], eta[3]>>  BY <1>2 DEF newEpoch, rotate
  <2>2. eta[1] \in Nat /\ eta[2] \in Nat /\ eta[3] \in Nat  BY DEF EpochInv
  <2>3. eta' \in [1..4 -> Nat]  BY <2>1, <2>2
  <2>4. ~sameEpoch(slot, extrinsic)  BY <1>2, SMTT(20) DEF newEpoch, sameEpoch
  <2> QED  BY <2>3, <2>4
<1> QED  BY <1>1, <1>2 DEF accept

LEMMA EpochInvNext == EpochInv /\ [Next]_vars => EpochInv'
<1> SUFFICES ASSUME EpochInv, [Next]_vars PROVE EpochInv'  OBVIOUS
<1>1. ASSUME NEW slot \in 0..MaxSlot, NEW extrinsic \in Extrinsics,
             accept(slot, extrinsic)
      PROVE  EpochInv'
  <2>1. slot \in Nat  BY SafroleAssumption DEF SafroleAssumption
  <2>2. /\ eta' \in [1..4 -> Nat]
        /\ sameEpoch(slot, extrinsic) => eta'[3] = eta[3]
    BY <1>1, <2>1, EntropyStep
  <2>3. post_offenders' = post_offenders  BY <1>1 DEF accept
  <2>4. CASE sameEpoch(slot, extrinsic)
    <3>1. epoch_mark' = epoch_mark /\ gamma_k' = gamma_k  BY <2>4 DEF sameEpoch
    <3>2. bandersnatch_keys(gamma_k)' = bandersnatch_keys(gamma_k)
      BY <3>1 DEF bandersnatch_keys
    <3> QED  BY <2>2, <2>3, <2>4, <3>1, <3>2 DEF EpochInv
  <2>5. CASE newEpoch(slot, extrinsic)
    <3>1. epoch_mark' = <<[entropy |-> eta'[2], tickets_entropy |-> eta'[3],
                           validators |-> bandersnatch_keys(gamma_k')]>>
      BY <2>5 DEF newEpoch
    <3>2. epoch_mark'[1].validators = bandersnatch_keys(gamma_k')
      BY <3>1
    <3>3. epoch_mark'[1].tickets_entropy = eta'[3]  BY <3>1
    <3>4. bandersnatch_keys(gamma_k)' = bandersnatch_keys(gamma_k')
      BY DEF bandersnatch_keys
    <3> QED  BY <2>2, <2>3, <3>2, <3>3, <3>4, SMTT(20) DEF EpochInv
  <2> QED  BY <1>1, <2>4, <2>5 DEF accept
<1>2. ASSUME UNCHANGED <<eta, gamma_k, epoch_mark>>,
             post_offenders' \subseteq Offenders
      PROVE  EpochInv'
  BY <1>2 DEF EpochInv, bandersnatch_keys
<1>3. CASE \E slot \in 0..MaxSlot, extrinsic \in Extrinsics : transition(slot, extrinsic)
  BY <1>1, <1>2, <1>3 DEF transition, reject, vars, state, EpochInv
<1>4. CASE \E k \in ValidatorSets : schedule(k)
  BY <1>2, <1>4 DEF schedule, EpochInv
<1>5. CASE \E v \in Offenders : offend(v)
  BY <1>2, <1>5 DEF offend, EpochInv
<1>6. CASE UNCHANGED vars
  BY <1>2, <1>6 DEF vars, state, EpochInv
<1> QED  BY <1>3, <1>4, <1>5, <1>6 DEF Next

\* The validators that an epoch mark announces author the next epoch, and the tickets'
\* entropy it announces holds until then.
THEOREM EpochMarksHold == Spec => EpochMarkFulfilled
<1> DEFINE A ==
      epoch_mark # <<>> =>
        /\ epoch(tau') # epoch(tau) => bandersnatch_keys(kappa') = epoch_mark[1].validators
        /\ epoch(tau') = epoch(tau) => eta'[3] = epoch_mark[1].tickets_entropy
<1>1. MarkInv /\ EpochInv /\ [Next]_vars => [A]_vars
  <2> SUFFICES ASSUME MarkInv, EpochInv, [Next]_vars, epoch_mark # <<>>
               PROVE  /\ epoch(tau') # epoch(tau) =>
                           bandersnatch_keys(kappa') = epoch_mark[1].validators
                      /\ epoch(tau') = epoch(tau) =>
                           eta'[3] = epoch_mark[1].tickets_entropy
    OBVIOUS
  <2>1. /\ epoch_mark[1].validators = bandersnatch_keys(gamma_k)
        /\ epoch_mark[1].tickets_entropy = eta[3]
    BY DEF EpochInv
  <2>2. ASSUME epoch(tau') # epoch(tau)
        PROVE  bandersnatch_keys(kappa') = epoch_mark[1].validators
    <3>1. PICK slot \in 0..MaxSlot, extrinsic \in Extrinsics : newEpoch(slot, extrinsic)
      BY <2>2, EpochChange
    <3>2. kappa' = gamma_k  BY <3>1 DEF newEpoch, rotate
    <3> QED  BY <2>1, <3>2
  <2>3. ASSUME epoch(tau') = epoch(tau)
        PROVE  eta'[3] = eta[3]
    <3>1. ASSUME NEW slot \in 0..MaxSlot, NEW extrinsic \in Extrinsics,
                 accept(slot, extrinsic)
          PROVE  eta'[3] = eta[3]
      <4>1. slot \in Nat  BY SafroleAssumption DEF SafroleAssumption
      <4>2. tau' = slot  BY <3>1 DEF accept
      <4>3. ~newEpoch(slot, extrinsic)  BY <2>3, <4>2 DEF newEpoch, changes
      <4> QED  BY <3>1, <4>1, <4>3, EntropyStep DEF accept
    <3>2. CASE \E slot \in 0..MaxSlot, extrinsic \in Extrinsics :
                 transition(slot, extrinsic)
      BY <3>1, <3>2 DEF transition, reject, vars, state
    <3> QED  BY <3>2 DEF Next, schedule, offend, vars, state
  <2> QED  BY <2>1, <2>2, <2>3
<1> QED
  BY <1>1, MarkInvInit, MarkInvNext, EpochInvInit, EpochInvNext, PTL
  DEF Spec, EpochMarkFulfilled

\* No validator known to offend when an epoch starts is in its ring.
THEOREM OffendersStayOut == Spec => OffendersExcluded
<1> DEFINE A ==
      epoch(tau') # epoch(tau) =>
        \A v \in post_offenders :
          /\ \A i \in DOMAIN gamma_k' : gamma_k'[i] # v
          /\ gamma_z' = mathcal_O(bandersnatch_keys(gamma_k'))
<1>1. MarkInv /\ EpochInv /\ [Next]_vars => [A]_vars
  <2> SUFFICES ASSUME MarkInv, EpochInv, [Next]_vars, epoch(tau') # epoch(tau),
                      NEW v \in post_offenders
               PROVE  /\ \A i \in DOMAIN gamma_k' : gamma_k'[i] # v
                      /\ gamma_z' = mathcal_O(bandersnatch_keys(gamma_k'))
    OBVIOUS
  <2>1. PICK slot \in 0..MaxSlot, extrinsic \in Extrinsics : newEpoch(slot, extrinsic)
    BY EpochChange
  <2>2. gamma_k' = phi(iota) /\ gamma_z' = mathcal_O(bandersnatch_keys(gamma_k'))
    BY <2>1 DEF newEpoch, rotate
  <2>3. v \in Offenders /\ v # NullValidator
    BY SafroleAssumption DEF EpochInv, SafroleAssumption
  <2> QED  BY <2>2, <2>3 DEF phi
<1> QED
  BY <1>1, MarkInvInit, MarkInvNext, EpochInvInit, EpochInvNext, PTL
  DEF Spec, OffendersExcluded
==============================================================================
