---------------------------- MODULE SourceStats ----------------------------
(***************************************************************************)
(* source_stats: what a receiver keeps about one stream of RTP packets,    *)
(* be it the stream of a source (RTP sequence numbers) or the stream of    *)
(* one subflow (subflow sequence numbers).  It turns 16-bit sequence       *)
(* numbers into 32-bit extended ones, counts arrivals, and fills the       *)
(* report block that goes back to the sender.                              *)
(*                                                                         *)
(* The module has no variables: a source_stats is a record, and each       *)
(* method an operator on it.  Jitter and the timestamps it is made of      *)
(* (the same lines' other half) do not influence any field kept here.      *)
(***************************************************************************)
EXTENDS Words

CONSTANTS
  LostMod,       \* number of cumulative losses a report holds: 2^24
  UndefinedByte  \* what (uint8_t) of a NaN can give; {0} on x86-64 and ARM

ASSUME LostAssumption == LostMod \in Nat \ {0}
ASSUME UndefinedByteAssumption ==
  UndefinedByte \subseteq 0..255 /\ UndefinedByte # {}

StatsType ==
  [received_data    : BOOLEAN,
   packets_received : Nat,
   num_new_packets  : Nat,
   num_cycles       : Word,
   baseseqnr        : Word,
   exthighseqnr     : Word,
   saved_ext_seqnr  : Word]

(* The constructor. *)
NewStats ==
  [received_data    |-> FALSE,
   packets_received |-> 0,
   num_new_packets  |-> 0,
   num_cycles       |-> 0,
   baseseqnr        |-> 0,
   exthighseqnr     |-> 0,
   saved_ext_seqnr  |-> 0]

-----------------------------------------------------------------------------
(* process_packet: how the 16-bit number seq of an arriving packet changes *)
(* the record, and the extended number it is given.                        *)

Counted(st) ==
  [st EXCEPT !.packets_received = @ + 1, !.num_new_packets = @ + 1]

(* A faulty variant: number 0 keeps its cycle although its base needs one. *)
FirstPacketSameCycle(st, seq) ==
  LET base == IF seq = 0 THEN SeqMod - 1 ELSE seq - 1 IN
  [Counted(st) EXCEPT
     !.received_data   = TRUE,
     !.baseseqnr       = base,
     !.exthighseqnr    = base + 1,
     !.saved_ext_seqnr = base]

(* The first packet fixes the base, one below its own number.  Number 0    *)
(* has nothing below it in 16 bits, so it starts in the second cycle.      *)
FirstPacket(st, seq) ==
  LET base == IF seq = 0 THEN SeqMod - 1 ELSE seq - 1 IN
  [Counted(st) EXCEPT
     !.received_data   = TRUE,
     !.num_cycles      = IF seq = 0 THEN SeqMod ELSE @,
     !.baseseqnr       = base,
     !.exthighseqnr    = base + 1,
     !.saved_ext_seqnr = base]

(* Faulty variants: the way down taken when both are as long, and no       *)
(* smaller number taken for a wrap-around.                                 *)
IsWrapOnTie(max16, seq) ==
  seq < max16 /\ (seq - max16) % SeqMod <= (max16 - seq) % SeqMod
IsWrapNever(max16, seq) == FALSE

(* dif1 < dif2: going up from the highest number to seq, past the          *)
(* wrap-around, is shorter than going down to it.                          *)
IsWrap(max16, seq) ==
  /\ seq < max16
  /\ (seq - max16) % SeqMod < (max16 - seq) % SeqMod

(* A faulty variant: the cycles outgrow 32 bits. *)
CyclesAtUnbounded(st, seq) ==
  IF IsWrap(st.exthighseqnr % SeqMod, seq)
  THEN st.num_cycles + SeqMod
  ELSE st.num_cycles

CyclesAt(st, seq) ==
  IF IsWrap(st.exthighseqnr % SeqMod, seq)
  THEN Plus32(st.num_cycles, SeqMod)
  ELSE st.num_cycles

(* The extended number of a packet that is not the first. *)
ExtendedSeq(st, seq) == Plus32(CyclesAt(st, seq), seq)

LaterPacket(st, seq) ==
  LET max16 == st.exthighseqnr % SeqMod IN
  [Counted(st) EXCEPT
     !.num_cycles   = CyclesAt(st, seq),
     !.exthighseqnr = IF seq >= max16 \/ IsWrap(max16, seq)
                      THEN ExtendedSeq(st, seq)
                      ELSE @]

ProcessPacket(st, seq) ==
  IF st.received_data THEN LaterPacket(st, seq) ELSE FirstPacket(st, seq)

(* The extended number process_packet writes into the packet. *)
AssignedSeq(st, seq) ==
  IF st.received_data THEN ExtendedSeq(st, seq)
                      ELSE FirstPacket(st, seq).exthighseqnr

-----------------------------------------------------------------------------
(* fill_receiver_report *)

ExpectedInInterval(st) == Minus32(st.exthighseqnr, st.saved_ext_seqnr)
ExpectedTotal(st) == Minus32(st.exthighseqnr, st.baseseqnr)

(* The values fraclost can take, in 1/256ths.  An interval without any     *)
(* arrival computes 0.0 / 0.0, whose conversion to uint8_t is undefined.   *)
FractionLost(st) ==
  LET expected == ExpectedInInterval(st)
      num == st.num_new_packets
  IN  IF expected < num THEN {0}
      ELSE IF expected = 0 THEN UndefinedByte
      ELSE {(((expected - num) * 256) \div expected) % 256}

(* packetslost: 32-bit arithmetic, of which the report keeps 24 bits. *)
PacketsLost(st) ==
  Minus32(ExpectedTotal(st), st.packets_received) % LostMod

(* Faulty variants: one half of the interval's bookkeeping is forgotten.   *)
StartNewIntervalKeepsHigh(st) == [st EXCEPT !.num_new_packets = 0]
StartNewIntervalAtBase(st) ==
  [st EXCEPT !.num_new_packets = 0, !.saved_ext_seqnr = st.baseseqnr]

StartNewInterval(st) ==
  [st EXCEPT !.num_new_packets = 0, !.saved_ext_seqnr = st.exthighseqnr]

(* The report blocks fill_receiver_report can produce. *)
ReceiverReports(st) ==
  [fractionlost  : FractionLost(st),
   packetslost   : {PacketsLost(st)},
   exthighseqnr  : {st.exthighseqnr}]
=============================================================================
