-------------------------------- MODULE History --------------------------------
(***************************************************************************)
(* history::transition: the recent history keeps the last H blocks, each   *)
(* with the Merkle mountain range over the accumulation roots of all       *)
(* blocks so far and with its state root, which only the next block knows. *)
(*                                                                         *)
(* Data: blocks are numbered; the number stands for the header, the        *)
(* accumulation root and the state root of the block.  The hash of two     *)
(* nodes is the sequence of the leaves below them.                         *)
(***************************************************************************)
EXTENDS Integers, Sequences

CONSTANTS H,          \* the size of the recent history
          MaxBlocks,  \* bound: the blocks of a run
          None

\* No peak is a value of its own.
ASSUME HistoryAssumption ==
  /\ H \in Nat \ {0} /\ MaxBlocks \in Nat
  /\ None \notin Nat /\ None \notin Seq(Nat)

VARIABLES beta,   \* the recent history
          blocks  \* history: the number of blocks

historyVars == <<beta, blocks>>

------------------------------------------------------------------------------
\* mathcal_A: the carry runs over the peaks that are there, lowest first, and stops
\* at the first place that is free.
carries(peaks) ==
  CHOOSE n \in 0..Len(peaks) :
    /\ \A i \in 1..n : peaks[i] # None
    /\ n < Len(peaks) => peaks[n + 1] = None

hash(r, l) == r \o l

carried(peaks, l) ==
  LET c[n \in 0..carries(peaks)] == IF n = 0 THEN l ELSE hash(peaks[n], c[n - 1]) IN c

mathcal_A(peaks, l) ==
  LET n == carries(peaks)
      top == carried(peaks, l)[n]
  IN  [i \in 1..(IF n = Len(peaks) THEN n + 1 ELSE Len(peaks)) |->
         IF i <= n THEN None ELSE IF i = n + 1 THEN top ELSE peaks[i]]

------------------------------------------------------------------------------
isFull_Late(b) == Len(b) > H
isFull(b) == Len(b) >= H

trimmed(b) == IF isFull(b) THEN Tail(b) ELSE b

\* The parent's state root goes into the last entry.
withParentRoot(b, root) == IF b = <<>> THEN b ELSE [b EXCEPT ![Len(b)].state_root = root]

lastMmr_Oldest == IF beta = <<>> THEN <<>> ELSE beta[1].mmr
lastMmr == IF beta = <<>> THEN <<>> ELSE beta[Len(beta)].mmr

entry(header) ==
  [header_hash |-> header,
   mmr |-> mathcal_A(lastMmr, <<header>>),
   state_root |-> None]

history_transition ==
  /\ blocks < MaxBlocks
  /\ beta' = Append(withParentRoot(trimmed(beta), blocks), entry(blocks + 1))
  /\ blocks' = blocks + 1

HistoryInit == beta = <<>> /\ blocks = 0

HistoryNext == history_transition

HistorySpec == HistoryInit /\ [][HistoryNext]_historyVars

------------------------------------------------------------------------------
HistoryTypeOK ==
  /\ blocks \in 0..MaxBlocks
  /\ beta \in Seq([header_hash : 1..MaxBlocks,
                   mmr : Seq(Seq(1..MaxBlocks) \cup {None}),
                   state_root : 0..MaxBlocks \cup {None}])

\* The history keeps its type, and it is the last H blocks, none missing and in order,
\* before and after it is full.  Every block but the last has its own state root, filled
\* in by the block after it, also when that block pushed the oldest entry out.
RecentBlocks ==
  /\ HistoryTypeOK
  /\ Len(beta) = IF blocks < H THEN blocks ELSE H
  /\ \A i \in 1..Len(beta) :
       /\ beta[i].header_hash = blocks - Len(beta) + i
       /\ beta[i].state_root = IF i = Len(beta) THEN None ELSE beta[i].header_hash

\* Reference: the range over k leaves has a peak of 2^n leaves for every bit n of k,
\* and the peaks, highest first, hold the leaves in order.
leaves(peaks) ==
  LET l[n \in 0..Len(peaks)] ==
        IF n = 0 THEN <<>>
        ELSE (IF peaks[n] = None THEN <<>> ELSE peaks[n]) \o l[n - 1]
  IN  l[Len(peaks)]

size[n \in Nat] == IF n = 0 THEN 1 ELSE 2 * size[n - 1]
halved(k) == LET h[n \in Nat] == IF n = 0 THEN k ELSE h[n - 1] \div 2 IN h

isRangeOver(peaks, k) ==
  /\ leaves(peaks) = [i \in 1..k |-> i]
  /\ \A n \in 1..Len(peaks) :
       IF halved(k)[n - 1] % 2 = 1
       THEN peaks[n] # None /\ Len(peaks[n]) = size[n - 1]
       ELSE peaks[n] = None
  /\ halved(k)[Len(peaks)] = 0

\* The range of every block covers all blocks from the first on, those that have left
\* the history included.
RangesComplete == \A i \in 1..Len(beta) : isRangeOver(beta[i].mmr, beta[i].header_hash)
==============================================================================
