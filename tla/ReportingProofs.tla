-------------------------- MODULE ReportingProofs --------------------------
(***************************************************************************)
(* The safety properties of Reporting, for any number of paths and widths  *)
(* of numbers, and without its bounds.                                     *)
(*                                                                         *)
(* Three invariants carry them.  Known: the source has one record for each *)
(* subflow it has heard of, the first of which has the address of the      *)
(* packet that the receiver first heard of the source through.  Lined: the *)
(* packets of a path stand in line in the order of their numbers, behind   *)
(* the one received last.  Tracked: the record of a path has the numbers   *)
(* that the packets of that path give it, and what the last answer said is *)
(* what it was then.                                                       *)
(***************************************************************************)
EXTENDS Reporting, SourceStatsLemmas

SourceType ==
  [stat : StatsType, subflows : Seq(RecvSubflowType), send_rr : BOOLEAN]
ToldType == [told : BOOLEAN, counted : BOOLEAN, ext : Word, high : Nat]

Typed ==
  /\ seq \in Nat /\ sfseq \in [Paths -> Nat]
  /\ net \in [Paths -> Seq(Nat \X Nat)]
  /\ src \in SourceType
  /\ first \in [Paths -> Nat] /\ high \in [Paths -> Nat]
  /\ told \in [Paths -> ToldType]
  /\ heard \in {"nothing", "rtp", "sr"}

(* No two records have the same number. *)
Distinct(s) == \A i, j \in DOMAIN s : s[i].id = s[j].id => i = j

(* The address of a record is that of its interface; it is the RTP one if  *)
(* how is "rtp".                                                           *)
Addressed(sf, how) ==
  sf.remote = IF how = "rtp" THEN RTP(sf.iface) ELSE RTCP(sf.iface)

Known ==
  /\ Distinct(src.subflows)
  /\ \A i \in DOMAIN src.subflows :
       Addressed(src.subflows[i], "rtp") \/ Addressed(src.subflows[i], "sr")
  /\ src.subflows # <<>> => Addressed(src.subflows[1], heard)
  /\ src.subflows = <<>> <=> heard = "nothing"
  /\ src.send_rr => src.subflows # <<>>
  /\ answer # NoAnswer => src.subflows # <<>>
  /\ answer.via \in 0..N /\ answer.to \in Endpoints

(* The statistics of subflow p: new ones when it has not been heard of. *)
StatOf(s, p) == IF p \in Ids(s) THEN s[Index(s, p)].recv_stat ELSE NewStats

Increasing(line, top) ==
  \A i \in DOMAIN line : /\ line[i][2] < top
                         /\ \A j \in 1..(i - 1) : line[j][2] < line[i][2]
AllAbove(line, n) == \A i \in DOMAIN line : n < line[i][2]

Lined(p) ==
  /\ Increasing(net[p], sfseq[p])
  /\ StatOf(src.subflows, p).received_data =>
       AllAbove(net[p], high[p]) /\ high[p] < sfseq[p]

(* The start of the cycle that packet f begins its stream in. *)
OriginOf(f) == IF f % SeqMod = 0 THEN f - SeqMod ELSE f - (f % SeqMod)

Tracked(p) ==
  LET st == StatOf(src.subflows, p)
      o == OriginOf(first[p])
  IN  /\ ~st.received_data => st.num_cycles = 0
      /\ st.received_data =>
           /\ st.exthighseqnr = (high[p] - o) % WordMod
           /\ st.num_cycles = (high[p] - (high[p] % SeqMod) - o) % WordMod
           /\ st.baseseqnr = (first[p] - 1 - o) % WordMod
      /\ told[p].counted =>
           /\ st.received_data
           /\ told[p].ext = (told[p].high - o) % WordMod
           /\ told[p].high <= high[p] /\ high[p] - told[p].high < WordMod

(* The stream counts whole cycles. *)
WholeCycles == src.stat.num_cycles % SeqMod = 0

-----------------------------------------------------------------------------
(* The subflows of a source. *)

(* A record is found by its number, and no other one is. *)
LEMMA IndexOf ==
  ASSUME NEW s \in Seq(RecvSubflowType), Distinct(s), NEW i \in DOMAIN s
  PROVE  Index(s, s[i].id) = i
<1>1. \A j \in 1..(i - 1) : j \in DOMAIN s /\ j # i OBVIOUS
<1>2. \A j \in 1..(i - 1) : s[j].id # s[i].id BY <1>1 DEF Distinct
<1>3. \A k \in DOMAIN s : s[k].id = s[i].id => k = i BY DEF Distinct
<1> QED BY <1>2, <1>3, Zenon DEF Index

(* The statistics of a subflow are those in the record with its number. *)
LEMMA StatAt ==
  ASSUME NEW s \in Seq(RecvSubflowType), Distinct(s), NEW i \in DOMAIN s
  PROVE  /\ s[i].id \in Ids(s)
         /\ StatOf(s, s[i].id) = s[i].recv_stat
<1>1. s[i].id \in Ids(s) BY DEF Ids
<1>2. Index(s, s[i].id) = i BY IndexOf
<1> QED BY <1>1, <1>2, Zenon DEF StatOf

(* Index leads to the record with the number, and every number is that of  *)
(* a path.                                                                 *)
LEMMA IdAt ==
  ASSUME NEW s \in Seq(RecvSubflowType), Distinct(s), NEW p \in Ids(s)
  PROVE  /\ Index(s, p) \in DOMAIN s /\ s[Index(s, p)].id = p
         /\ p \in Paths
<1>1. PICK i \in DOMAIN s : s[i].id = p BY DEF Ids
<1>2. Index(s, p) = i BY <1>1, IndexOf
<1>3. s[i] \in RecvSubflowType OBVIOUS
<1> QED BY <1>1, <1>2, <1>3 DEF RecvSubflowType

(* The statistics of any subflow have their type, heard of or not. *)
LEMMA StatType ==
  ASSUME NEW s \in Seq(RecvSubflowType), Distinct(s), NEW p
  PROVE  StatOf(s, p) \in StatsType
<1>1. CASE p \in Ids(s)
  <2>1. Index(s, p) \in DOMAIN s BY <1>1, IdAt
  <2>2. s[Index(s, p)] \in RecvSubflowType BY <2>1
  <2> QED BY <1>1, <2>2 DEF StatOf, RecvSubflowType
<1>2. CASE p \notin Ids(s) BY <1>2, NewStatsType DEF StatOf
<1> QED BY <1>1, <1>2

(* Two sequences of records in which the same subflows have the same       *)
(* statistics.                                                             *)
LEMMA SameStats ==
  ASSUME NEW s \in Seq(RecvSubflowType), Distinct(s),
         NEW t \in Seq(RecvSubflowType), Distinct(t),
         \A i \in DOMAIN s : i \in DOMAIN t /\ t[i] = s[i],
         \A i \in DOMAIN t \ DOMAIN s : t[i].recv_stat = NewStats
  PROVE  /\ Ids(s) \subseteq Ids(t)
         /\ \A p : StatOf(t, p) = StatOf(s, p)
<1>1. Ids(s) \subseteq Ids(t) BY DEF Ids
<1>2. ASSUME NEW p PROVE StatOf(t, p) = StatOf(s, p)
  <2>1. CASE p \in Ids(s)
    <3>1. PICK i \in DOMAIN s : s[i].id = p BY <2>1 DEF Ids
    <3>2. i \in DOMAIN t /\ t[i] = s[i] OBVIOUS
    <3>3. StatOf(s, p) = s[i].recv_stat /\ StatOf(t, p) = t[i].recv_stat
      BY <3>1, <3>2, StatAt
    <3> QED BY <3>2, <3>3
  <2>2. CASE p \in Ids(t) \ Ids(s)
    <3>1. PICK i \in DOMAIN t : t[i].id = p BY <2>2 DEF Ids
    <3>2. i \notin DOMAIN s BY <2>2, <3>1 DEF Ids
    <3>3. StatOf(t, p) = t[i].recv_stat BY <3>1, StatAt
    <3> QED BY <2>2, <3>2, <3>3 DEF StatOf
  <2>3. CASE p \notin Ids(t) BY <1>1, <2>3 DEF StatOf
  <2> QED BY <2>1, <2>2, <2>3
<1> QED BY <1>1, <1>2

(* t is s and more records, new ones with one address and interface. *)
Grown(s, t, from, iface) ==
  /\ t \in Seq(RecvSubflowType) /\ Distinct(t)
  /\ \A i \in DOMAIN s : i \in DOMAIN t /\ t[i] = s[i]
  /\ \A i \in DOMAIN t \ DOMAIN s :
       /\ t[i].remote = from /\ t[i].iface = iface
       /\ t[i].recv_stat = NewStats

(* Two steps that only add records for one address are one such step. *)
LEMMA GrownTransitive ==
  ASSUME NEW s, NEW t, NEW u, NEW from, NEW iface,
         Grown(s, t, from, iface), Grown(t, u, from, iface)
  PROVE  Grown(s, u, from, iface)
  BY DEF Grown

(* find_subflow makes at most one record, and then there is one. *)
LEMMA FoundGrows ==
  ASSUME NEW s \in Seq(RecvSubflowType), Distinct(s), NEW id \in Paths,
         NEW from \in Endpoints, NEW iface \in Paths
  PROVE  LET t == Found(s, id, from, iface)
         IN  Grown(s, t, from, iface) /\ id \in Ids(t)
<1>1. CASE id \in Ids(s)
  BY <1>1 DEF Found, Grown
<1>2. CASE id \notin Ids(s)
  <2> DEFINE r == NewSubflow(id, from, iface)
             t == Append(s, r)
  <2>1. /\ r \in RecvSubflowType /\ r.id = id /\ r.remote = from
        /\ r.iface = iface /\ r.recv_stat = NewStats
    BY NewStatsType DEF NewSubflow, RecvSubflowType
  <2> HIDE DEF r
  <2>2. /\ t \in Seq(RecvSubflowType) /\ Len(t) = Len(s) + 1
        /\ \A i \in DOMAIN s : i \in DOMAIN t /\ t[i] = s[i]
        /\ t[Len(s) + 1] = r
        /\ Len(s) + 1 \in DOMAIN t
        /\ \A i \in DOMAIN t \ DOMAIN s : i = Len(s) + 1
    BY <2>1
  <2> HIDE DEF t
  <2>3. \A i \in DOMAIN s : s[i].id # id BY <1>2 DEF Ids
  <2>4. Distinct(t)
    BY <2>1, <2>2, <2>3 DEF Distinct
  <2>5. id \in Ids(t) BY <2>1, <2>2 DEF Ids
  <2>6. Grown(s, t, from, iface) BY <2>1, <2>2, <2>4 DEF Grown
  <2>7. Found(s, id, from, iface) = t BY <1>2 DEF Found, t, r
  <2> QED BY <2>5, <2>6, <2>7
<1> QED BY <1>1, <1>2

(* The reports of a compound, handled one by one.                          *)
FoundStep(f, s, ids, from, iface, n) ==
  IF n = 0 THEN s ELSE Found(f[n - 1], ids[n], from, iface)
FoundUpTo(f, s, ids, from, iface, n) ==
  \A m \in 0..Len(ids) : m < n => f[m] = FoundStep(f, s, ids, from, iface, m)
Reached(s, ids, from, iface) ==
  {n \in Nat : \E f : /\ DOMAIN f = 0..Len(ids)
                      /\ FoundUpTo(f, s, ids, from, iface, n)}

(* There is a function of which each value is computed from the one        *)
(* before, and FoundAll is the last of them.                               *)
LEMMA FoundAllIs ==
  ASSUME NEW s, NEW ids, Len(ids) \in Nat, NEW from, NEW iface
  PROVE  \E f : /\ \A n \in 0..Len(ids) : f[n] = FoundStep(f, s, ids, from, iface, n)
                /\ FoundAll(s, ids, from, iface) = f[Len(ids)]
<1> DEFINE Step(f, n) == FoundStep(f, s, ids, from, iface, n)
           D == 0..Len(ids)
<1>1. \A n \in Nat : n \in Reached(s, ids, from, iface)
  <2> SUFFICES ASSUME NEW n \in Nat,
                      \A m \in 0..(n - 1) : m \in Reached(s, ids, from, iface)
               PROVE  n \in Reached(s, ids, from, iface)
    BY NumberInduction, Zenon
  <2>1. CASE n = 0
    <3>1. DOMAIN [m \in D |-> s] = 0..Len(ids) OBVIOUS
    <3>2. FoundUpTo([m \in D |-> s], s, ids, from, iface, n) BY <2>1 DEF FoundUpTo
    <3> QED BY <3>1, <3>2, Zenon DEF Reached
  <2>2. CASE n # 0
    <3>1. n - 1 \in 0..(n - 1) BY <2>2
    <3>2. n - 1 \in Reached(s, ids, from, iface) BY <3>1
    <3>3. PICK g : DOMAIN g = D /\ FoundUpTo(g, s, ids, from, iface, n - 1)
      BY <3>2, Zenon DEF Reached
    <3>4. PICK h : h = [m \in D |-> Step(g, m)] OBVIOUS
    <3>5. \A m \in D : m < n - 1 => g[m] = Step(g, m) BY <3>3 DEF FoundUpTo
    <3>6. \A m \in D : h[m] = Step(g, m) BY <3>4
    <3>7. ASSUME NEW m \in D, m < n PROVE h[m] = Step(h, m)
      <4>1. CASE m = 0 BY <3>6, <4>1 DEF FoundStep
      <4>2. CASE m # 0
        <5>1. m - 1 \in D /\ m - 1 < n - 1 BY <3>7, <4>2
        <5>2. g[m - 1] = h[m - 1] BY <3>5, <3>6, <5>1
        <5> QED BY <3>6, <4>2, <5>2 DEF FoundStep
      <4> QED BY <4>1, <4>2
    <3>8. FoundUpTo(h, s, ids, from, iface, n) BY <3>7 DEF FoundUpTo
    <3>9. DOMAIN h = 0..Len(ids) BY <3>4
    <3> QED BY <3>8, <3>9, Zenon DEF Reached
  <2> QED BY <2>1, <2>2
<1>2. Len(ids) + 1 \in Reached(s, ids, from, iface)
  BY <1>1
<1>3. PICK f : DOMAIN f = D /\ FoundUpTo(f, s, ids, from, iface, Len(ids) + 1)
  BY <1>2, Zenon DEF Reached
<1>4. PICK g : g = [n \in D |-> f[n]] OBVIOUS
<1>5. \A n \in D : f[n] = Step(f, n) BY <1>3 DEF FoundUpTo
<1>6. \A n \in D : Step(g, n) = Step(f, n)
  <2> TAKE n \in D
  <2>1. CASE n = 0 BY <2>1 DEF FoundStep
  <2>2. CASE n # 0
    <3>1. n - 1 \in D BY <2>2
    <3> QED BY <1>4, <2>2, <3>1 DEF FoundStep
  <2> QED BY <2>1, <2>2
<1>7. g = [n \in D |-> Step(g, n)] BY <1>4, <1>5, <1>6
<1> DEFINE after == CHOOSE a : a = [n \in D |-> Step(a, n)]
<1>8. after = [n \in D |-> Step(after, n)] BY <1>7
<1>9. FoundAll(s, ids, from, iface) = after[Len(ids)] BY DEF FoundAll, FoundStep
<1> HIDE DEF after
<1>10. \A n \in D : after[n] = Step(after, n) BY <1>8
<1> QED BY <1>9, <1>10

(* A compound about any subflows makes records for those not heard of.     *)
LEMMA FoundAllGrows ==
  ASSUME NEW s \in Seq(RecvSubflowType), Distinct(s), NEW ids \in Seq(Paths),
         NEW from \in Endpoints, NEW iface \in Paths
  PROVE  LET t == FoundAll(s, ids, from, iface)
         IN  Grown(s, t, from, iface) /\ (Len(ids) > 0 => t # <<>>)
<1>1. PICK f : /\ \A n \in 0..Len(ids) : f[n] = FoundStep(f, s, ids, from, iface, n)
               /\ FoundAll(s, ids, from, iface) = f[Len(ids)]
  BY FoundAllIs
<1> DEFINE Right(n) == Grown(s, f[n], from, iface) /\ (n > 0 => f[n] # <<>>)
           T == {n \in Nat : n \in 0..Len(ids) => Right(n)}
<1>2. \A n \in Nat : n \in T
  <2> SUFFICES ASSUME NEW n \in Nat, \A m \in 0..(n - 1) : m \in T PROVE n \in T
    <3> HIDE DEF T
    <3> QED BY NumberInduction, Zenon
  <2> SUFFICES ASSUME n \in 0..Len(ids) PROVE Right(n)
    OBVIOUS
  <2>1. CASE n = 0
    <3>1. f[n] = s BY <1>1, <2>1 DEF FoundStep
    <3> QED BY <2>1, <3>1 DEF Grown
  <2>2. CASE n # 0
    <3>1. n - 1 \in 0..(n - 1) /\ n - 1 \in 0..Len(ids) /\ n \in 1..Len(ids)
      BY <2>2
    <3>2. Grown(s, f[n - 1], from, iface) BY <3>1
    <3>3. f[n] = Found(f[n - 1], ids[n], from, iface) BY <1>1, <2>2 DEF FoundStep
    <3>4. ids[n] \in Paths BY <3>1
    <3>5. f[n - 1] \in Seq(RecvSubflowType) /\ Distinct(f[n - 1]) BY <3>2 DEF Grown
    <3>6. Grown(f[n - 1], f[n], from, iface) /\ ids[n] \in Ids(f[n])
      BY <3>3, <3>4, <3>5, FoundGrows
    <3>7. Grown(s, f[n], from, iface) BY <3>2, <3>6, GrownTransitive
    <3>8. f[n] # <<>> BY <3>6 DEF Ids
    <3> QED BY <3>7, <3>8
  <2> QED BY <2>1, <2>2
<1>3. Len(ids) \in T /\ Len(ids) \in 0..Len(ids) BY <1>2
<1>4. Right(Len(ids)) BY <1>3
<1> QED BY <1>1, <1>4

-----------------------------------------------------------------------------
(* What the handlers of the receiver do to the records. *)

(* Whether an answer counts a subflow is whether its statistics have seen  *)
(* a packet.                                                               *)
LEMMA CountsIs ==
  ASSUME NEW c, NEW p
  PROVE  Counts(c, p) <=> StatOf(c.subflows, p).received_data
  BY DEF Counts, StatOf, Record, NewStats

(* Records with the same numbers in the same places.                       *)
LEMMA SameIds ==
  ASSUME NEW s \in Seq(RecvSubflowType), Distinct(s),
         NEW t \in Seq(RecvSubflowType), DOMAIN t = DOMAIN s,
         \A i \in DOMAIN s : t[i].id = s[i].id
  PROVE  /\ Distinct(t) /\ Ids(t) = Ids(s)
         /\ \A i \in DOMAIN s : StatOf(t, s[i].id) = t[i].recv_stat
         /\ \A p : p \notin Ids(s) => StatOf(t, p) = NewStats
<1>1. Distinct(t) BY DEF Distinct
<1>2. Ids(t) = Ids(s) BY DEF Ids
<1>3. \A i \in DOMAIN s : StatOf(t, s[i].id) = t[i].recv_stat
  <2> TAKE i \in DOMAIN s
  <2>1. i \in DOMAIN t /\ t[i].id = s[i].id OBVIOUS
  <2>2. StatOf(t, t[i].id) = t[i].recv_stat BY <1>1, <2>1, StatAt
  <2> QED BY <2>1, <2>2
<1> QED BY <1>1, <1>2, <1>3 DEF StatOf

(* Both sockets of every path are endpoints. *)
LEMMA EndpointTypes ==
  ASSUME NEW p \in Paths
  PROVE  RTP(p) \in Endpoints /\ RTCP(p) \in Endpoints
  BY ReportingAssumption DEF RTP, RTCP, Endpoints, Paths

(* A packet on path p is counted by subflow p and no other.                *)
LEMMA RTPEffect ==
  ASSUME NEW c \in SourceType, Distinct(c.subflows), NEW p \in Paths,
         NEW pkt \in [seq : Seq16, id : {p}, sfseq : Seq16]
  PROVE  LET d == ProcessRTP(c, pkt, RTP(p), p)
             found == Found(c.subflows, p, RTP(p), p)
         IN  /\ d \in SourceType /\ Distinct(d.subflows)
             /\ d.stat = ProcessPacket(c.stat, pkt.seq) /\ d.send_rr = c.send_rr
             /\ StatOf(d.subflows, p) = ProcessPacket(StatOf(c.subflows, p), pkt.sfseq)
             /\ \A q : q # p => StatOf(d.subflows, q) = StatOf(c.subflows, q)
             /\ DOMAIN d.subflows = DOMAIN found
             /\ \A i \in DOMAIN found : /\ d.subflows[i].remote = found[i].remote
                                        /\ d.subflows[i].iface = found[i].iface
<1> DEFINE s == c.subflows
           found == Found(s, p, RTP(p), p)
           k == Index(found, p)
           new == ProcessPacket(found[k].recv_stat, pkt.sfseq)
           t == [i \in DOMAIN found |->
                   IF i = k THEN [found[k] EXCEPT !.recv_stat = new] ELSE found[i]]
<1>1. s \in Seq(RecvSubflowType) /\ c.stat \in StatsType /\ c.send_rr \in BOOLEAN
  BY DEF SourceType
<1>2. Grown(s, found, RTP(p), p) /\ p \in Ids(found)
  BY <1>1, EndpointTypes, FoundGrows
<1>3. /\ found \in Seq(RecvSubflowType) /\ Distinct(found)
      /\ \A q : StatOf(found, q) = StatOf(s, q)
  <2>1. found \in Seq(RecvSubflowType) /\ Distinct(found) BY <1>2 DEF Grown
  <2> HIDE DEF found
  <2>2. /\ \A i \in DOMAIN s : i \in DOMAIN found /\ found[i] = s[i]
        /\ \A i \in DOMAIN found \ DOMAIN s : found[i].recv_stat = NewStats
    BY <1>2 DEF Grown
  <2> HIDE DEF s
  <2>3. Distinct(s) BY DEF s
  <2> QED BY <1>1, <2>1, <2>2, <2>3, SameStats
<1>4. k \in DOMAIN found /\ found[k].id = p
  BY <1>2, <1>3, IdAt
<1>5. pkt.seq \in Seq16 /\ pkt.id = p /\ pkt.sfseq \in Seq16 OBVIOUS
<1>6. ProcessRTP(c, pkt, RTP(p), p) =
        [stat |-> ProcessPacket(c.stat, pkt.seq), subflows |-> t,
         send_rr |-> c.send_rr]
  <2>1. [found EXCEPT ![k].recv_stat = ProcessPacket(@, pkt.sfseq)] = t
    BY <1>3, <1>4
  <2>2. ProcessRTP(c, pkt, RTP(p), p) =
          [c EXCEPT !.stat = ProcessPacket(@, pkt.seq),
                    !.subflows = [found EXCEPT ![k].recv_stat = ProcessPacket(@, pkt.sfseq)]]
    BY <1>5 DEF ProcessRTP
  <2> HIDE DEF t
  <2>3. ProcessRTP(c, pkt, RTP(p), p) =
          [c EXCEPT !.stat = ProcessPacket(@, pkt.seq), !.subflows = t]
    BY <2>1, <2>2
  <2> HIDE DEF s, found, k
  <2> QED BY <2>3 DEF SourceType
<1> HIDE DEF found, k
<1>7. found[k] \in RecvSubflowType BY <1>3, <1>4
<1>8. new \in StatsType
  <2>1. found[k].recv_stat \in StatsType BY <1>7 DEF RecvSubflowType
  <2> QED BY <1>5, <2>1, ProcessPacketType
<1> HIDE DEF new
<1>9. [found[k] EXCEPT !.recv_stat = new] \in RecvSubflowType
  BY <1>7, <1>8 DEF RecvSubflowType
<1>10. /\ t \in Seq(RecvSubflowType) /\ DOMAIN t = DOMAIN found
       /\ \A i \in DOMAIN found : i # k => t[i] = found[i]
       /\ t[k] = [found[k] EXCEPT !.recv_stat = new]
  BY <1>3, <1>4, <1>9
<1>11. \A i \in DOMAIN found : /\ t[i].id = found[i].id
                               /\ t[i].remote = found[i].remote
                               /\ t[i].iface = found[i].iface
  BY <1>4, <1>7, <1>10 DEF RecvSubflowType
<1>12. t[k].recv_stat = new BY <1>7, <1>10 DEF RecvSubflowType
<1> HIDE DEF t
<1>13. /\ Distinct(t) /\ Ids(t) = Ids(found)
       /\ \A i \in DOMAIN found : StatOf(t, found[i].id) = t[i].recv_stat
       /\ \A q : q \notin Ids(found) => StatOf(t, q) = NewStats
  BY <1>3, <1>10, <1>11, SameIds
<1>14. StatOf(t, p) = ProcessPacket(StatOf(s, p), pkt.sfseq)
  <2>1. StatOf(t, p) = new BY <1>4, <1>12, <1>13
  <2>2. StatOf(found, p) = found[k].recv_stat BY <1>3, <1>4, StatAt
  <2> QED BY <1>3, <2>1, <2>2 DEF new
<1>15. ASSUME NEW q, q # p PROVE StatOf(t, q) = StatOf(s, q)
  <2>1. CASE q \in Ids(found)
    <3>1. PICK i \in DOMAIN found : found[i].id = q BY <2>1 DEF Ids
    <3>2. i # k BY <1>4, <1>15, <3>1
    <3>3. StatOf(t, q) = found[i].recv_stat BY <1>10, <1>13, <3>1, <3>2
    <3>4. StatOf(found, q) = found[i].recv_stat BY <1>3, <3>1, StatAt
    <3> QED BY <1>3, <3>3, <3>4
  <2>2. CASE q \notin Ids(found)
    <3>1. StatOf(t, q) = NewStats /\ StatOf(found, q) = NewStats
      BY <1>13, <2>2 DEF StatOf
    <3> QED BY <1>3, <3>1
  <2> QED BY <2>1, <2>2
<1>16. ProcessPacket(c.stat, pkt.seq) \in StatsType
  BY <1>1, <1>5, ProcessPacketType
<1>17. ProcessRTP(c, pkt, RTP(p), p) \in SourceType
  BY <1>1, <1>6, <1>10, <1>16 DEF SourceType
<1> QED BY <1>6, <1>10, <1>11, <1>13, <1>14, <1>15, <1>17 DEF found

(* A sender report makes records, and changes none.                        *)
LEMMA SREffect ==
  ASSUME NEW c \in SourceType, Distinct(c.subflows), NEW p \in Paths
  PROVE  LET d == ProcessSR(c, AllIds, RTCP(p), p)
         IN  /\ d \in SourceType /\ Grown(c.subflows, d.subflows, RTCP(p), p)
             /\ d.subflows # <<>> /\ d.stat = c.stat
             /\ \A q : StatOf(d.subflows, q) = StatOf(c.subflows, q)
<1> DEFINE s == c.subflows
           t == FoundAll(s, AllIds, RTCP(p), p)
<1>1. AllIds \in Seq(Paths) /\ Len(AllIds) > 0
  BY ReportingAssumption DEF AllIds, Paths
<1>2. s \in Seq(RecvSubflowType) /\ c.stat \in StatsType BY DEF SourceType
<1>3. Grown(s, t, RTCP(p), p) /\ t # <<>>
  BY <1>1, <1>2, EndpointTypes, FoundAllGrows
<1> HIDE DEF t
<1>4. ProcessSR(c, AllIds, RTCP(p), p) =
        [stat |-> c.stat, subflows |-> t, send_rr |-> TRUE]
  <2>1. ProcessSR(c, AllIds, RTCP(p), p) = [c EXCEPT !.send_rr = TRUE, !.subflows = t]
    BY DEF ProcessSR, t
  <2> HIDE DEF s
  <2> QED BY <2>1 DEF SourceType
<1>5. t \in Seq(RecvSubflowType) /\ Distinct(t) BY <1>3 DEF Grown
<1>6. \A q : StatOf(t, q) = StatOf(s, q)
  <2>1. /\ \A i \in DOMAIN s : i \in DOMAIN t /\ t[i] = s[i]
        /\ \A i \in DOMAIN t \ DOMAIN s : t[i].recv_stat = NewStats
    BY <1>3 DEF Grown
  <2> HIDE DEF s
  <2>2. Distinct(s) BY DEF s
  <2> QED BY <1>2, <1>5, <2>1, <2>2, SameStats
<1> QED BY <1>2, <1>3, <1>4, <1>5, <1>6 DEF SourceType

(* An answer starts a new interval in every record, and leaves what it     *)
(* knows of the numbers.                                                   *)
SameNumbers(u, r) ==
  /\ u.received_data = r.received_data /\ u.num_cycles = r.num_cycles
  /\ u.baseseqnr = r.baseseqnr /\ u.exthighseqnr = r.exthighseqnr

(* A new interval changes nothing that tells packets apart: the first and  *)
(* the highest number, the cycles, whether there was a packet.             *)
LEMMA IntervalFields ==
  ASSUME NEW r \in StatsType
  PROVE  /\ StartNewInterval(r) \in StatsType
         /\ SameNumbers(StartNewInterval(r), r)
  BY ZenonT(30), ReportType DEF StartNewInterval, StatsType, SameNumbers

(* An answer (source::poll) starts new intervals and is no longer due; the *)
(* records stay where they are, with their addresses and numbers.          *)
LEMMA PollEffect ==
  ASSUME NEW c \in SourceType, Distinct(c.subflows)
  PROVE  LET d == Answered(c)
         IN  /\ d \in SourceType /\ Distinct(d.subflows)
             /\ d.send_rr = FALSE /\ d.stat.num_cycles = c.stat.num_cycles
             /\ DOMAIN d.subflows = DOMAIN c.subflows
             /\ \A i \in DOMAIN c.subflows :
                  /\ d.subflows[i].remote = c.subflows[i].remote
                  /\ d.subflows[i].iface = c.subflows[i].iface
             /\ \A q : SameNumbers(StatOf(d.subflows, q), StatOf(c.subflows, q))
<1> DEFINE s == c.subflows
           t == [i \in DOMAIN s |-> [s[i] EXCEPT !.recv_stat = StartNewInterval(@)]]
<1>1. s \in Seq(RecvSubflowType) /\ c.stat \in StatsType BY DEF SourceType
<1>2. Answered(c) = [stat |-> StartNewInterval(c.stat), subflows |-> t,
                     send_rr |-> FALSE]
  <2>1. PICK u : u = StartNewInterval(c.stat) OBVIOUS
  <2>2. Answered(c) = [c EXCEPT !.send_rr = FALSE, !.stat = u, !.subflows = t]
    BY <2>1 DEF Answered
  <2> HIDE DEF t, s
  <2> QED BY <2>1, <2>2 DEF SourceType
<1> HIDE DEF s
<1>3. \A i \in DOMAIN s :
        /\ t[i] \in RecvSubflowType /\ t[i].id = s[i].id
        /\ t[i].remote = s[i].remote /\ t[i].iface = s[i].iface
        /\ t[i].recv_stat = StartNewInterval(s[i].recv_stat)
  <2> TAKE i \in DOMAIN s
  <2>1. s[i] \in RecvSubflowType BY <1>1
  <2>2. PICK new : new = StartNewInterval(s[i].recv_stat) OBVIOUS
  <2>3. new \in StatsType BY <2>1, <2>2, IntervalFields DEF RecvSubflowType
  <2>4. t[i] = [s[i] EXCEPT !.recv_stat = new] BY <2>2
  <2> QED BY <2>1, <2>2, <2>3, <2>4 DEF RecvSubflowType
<1>4. t \in Seq(RecvSubflowType) /\ DOMAIN t = DOMAIN s
  <2>1. DOMAIN s = 1..Len(s) /\ Len(s) \in Nat BY <1>1
  <2>2. DOMAIN t = DOMAIN s /\ t = [i \in 1..Len(s) |-> t[i]] BY <2>1
  <2> HIDE DEF t
  <2>3. t \in [1..Len(s) -> RecvSubflowType] BY <1>3, <2>1, <2>2
  <2> QED BY <2>1, <2>2, <2>3
<1> HIDE DEF t
<1>5. Distinct(s) BY DEF s
<1>6. /\ Distinct(t)
      /\ \A i \in DOMAIN s : StatOf(t, s[i].id) = t[i].recv_stat
      /\ \A q : q \notin Ids(s) => StatOf(t, q) = NewStats
  BY <1>1, <1>3, <1>4, <1>5, SameIds
<1>8. ASSUME NEW q PROVE SameNumbers(StatOf(t, q), StatOf(s, q))
  <2>1. CASE q \in Ids(s)
    <3>1. PICK i \in DOMAIN s : s[i].id = q BY <2>1 DEF Ids
    <3>2. StatOf(s, q) = s[i].recv_stat BY <1>1, <1>5, <3>1, StatAt
    <3>3. s[i].recv_stat \in StatsType
      <4>1. s[i] \in RecvSubflowType BY <1>1
      <4> QED BY <4>1 DEF RecvSubflowType
    <3>4. StatOf(t, q) = StartNewInterval(s[i].recv_stat) BY <1>3, <1>6, <3>1
    <3> QED BY <3>2, <3>3, <3>4, IntervalFields
  <2>2. CASE q \notin Ids(s) BY <1>6, <2>2 DEF StatOf, SameNumbers
  <2> QED BY <2>1, <2>2
<1>9. /\ StartNewInterval(c.stat) \in StatsType
      /\ StartNewInterval(c.stat).num_cycles = c.stat.num_cycles
  BY <1>1, IntervalFields DEF SameNumbers
<1> QED BY <1>2, <1>3, <1>4, <1>6, <1>8, <1>9 DEF SourceType, s

-----------------------------------------------------------------------------
(* The steps of the receiver, in terms of the variables. *)

(* t keeps the addresses of s, and its other records have the one given.   *)
Keeps(s, t, from, iface) ==
  /\ DOMAIN s \subseteq DOMAIN t
  /\ \A i \in DOMAIN t :
       IF i \in DOMAIN s
       THEN t[i].remote = s[i].remote /\ t[i].iface = s[i].iface
       ELSE t[i].remote = from /\ t[i].iface = iface

(* What is in line on a path: its first packet and the rest. *)
LEMMA LineTypes ==
  ASSUME Typed, NEW p \in Paths, net[p] # <<>>
  PROVE  /\ Head(net[p]) = net[p][1] /\ 1 \in DOMAIN net[p]
         /\ Head(net[p])[1] \in Nat /\ Head(net[p])[2] \in Nat
         /\ Tail(net[p]) \in Seq(Nat \X Nat)
         /\ Len(Tail(net[p])) = Len(net[p]) - 1
         /\ \A i \in DOMAIN Tail(net[p]) :
              i + 1 \in DOMAIN net[p] /\ Tail(net[p])[i] = net[p][i + 1]
<1>1. net[p] \in Seq(Nat \X Nat) BY DEF Typed
<1>2. PICK line \in Seq(Nat \X Nat) : line = net[p] BY <1>1
<1>3. line # <<>> BY <1>2
<1>4. Head(line) = line[1] /\ 1 \in DOMAIN line /\ line[1] \in Nat \X Nat
  BY <1>3
<1>5. /\ Tail(line) \in Seq(Nat \X Nat)
      /\ Len(Tail(line)) = Len(line) - 1
      /\ \A i \in DOMAIN Tail(line) :
           i + 1 \in DOMAIN line /\ Tail(line)[i] = line[i + 1]
  BY <1>3
<1> QED BY <1>2, <1>4, <1>5

(* A packet (receiver::on_rtp_packet) counts for the stream and for its    *)
(* own subflow and for no other, and makes at most the record of that      *)
(* subflow.                                                                *)
LEMMA OnRTPEffect ==
  ASSUME Typed, Known, NEW p \in Paths, OnRTP(p)
  PROVE  LET n == Head(net[p])
             st == StatOf(src.subflows, p)
         IN  /\ src' \in SourceType /\ Distinct(src'.subflows)
             /\ src'.stat = ProcessPacket(src.stat, n[1] % SeqMod)
             /\ src'.send_rr = src.send_rr
             /\ StatOf(src'.subflows, p) = ProcessPacket(st, n[2] % SeqMod)
             /\ \A q : q # p => StatOf(src'.subflows, q) = StatOf(src.subflows, q)
             /\ Keeps(src.subflows, src'.subflows, RTP(p), p)
             /\ src'.subflows # <<>>
             /\ high' = [high EXCEPT ![p] = n[2]]
             /\ first' = IF st.received_data THEN first
                         ELSE [first EXCEPT ![p] = n[2]]
             /\ st.received_data => 2 * (n[2] - high[p]) < SeqMod
             /\ told[p].counted => n[2] - told[p].high < WordMod
             /\ given'.seq = n[1]
             /\ ~given'.opens =>
                  st.received_data /\ given'.ext = AssignedSeq(src.stat, n[1] % SeqMod)
<1> DEFINE n == Head(net[p])
           pkt == [seq |-> n[1] % SeqMod, id |-> p, sfseq |-> n[2] % SeqMod]
           found == Found(src.subflows, p, RTP(p), p)
<1>1. net[p] # <<>> BY DEF OnRTP
<1>2. n[1] \in Nat /\ n[2] \in Nat BY <1>1, LineTypes
<1>3. Counts(src, p) <=> StatOf(src.subflows, p).received_data BY CountsIs
<1>4. pkt \in [seq : Seq16, id : {p}, sfseq : Seq16]
  <2>1. n[1] % SeqMod \in Seq16 /\ n[2] % SeqMod \in Seq16
    BY <1>2, SeqType
  <2> HIDE DEF n
  <2> QED BY <2>1
<1>5. /\ src' = ProcessRTP(src, pkt, RTP(p), p)
      /\ given' = [ext |-> GivenNumber(src, pkt), seq |-> n[1],
                   opens |-> ~Counts(src, p)]
      /\ high' = [high EXCEPT ![p] = n[2]]
      /\ first' = IF Counts(src, p) THEN first ELSE [first EXCEPT ![p] = n[2]]
      /\ Near(p, n[2])
  BY DEF OnRTP
<1>6. Counts(src, p) => GivenNumber(src, pkt) = AssignedSeq(src.stat, n[1] % SeqMod)
  BY DEF GivenNumber
<1>t. src \in SourceType /\ Distinct(src.subflows)
      /\ src.subflows \in Seq(RecvSubflowType)
  BY DEF Typed, Known, SourceType
<1>7. Grown(src.subflows, found, RTP(p), p) /\ p \in Ids(found)
  BY <1>t, EndpointTypes, FoundGrows
<1> HIDE DEF n
<1>8. /\ src' \in SourceType /\ Distinct(src'.subflows)
      /\ src'.stat = ProcessPacket(src.stat, n[1] % SeqMod)
      /\ src'.send_rr = src.send_rr
      /\ StatOf(src'.subflows, p)
           = ProcessPacket(StatOf(src.subflows, p), n[2] % SeqMod)
      /\ \A q : q # p => StatOf(src'.subflows, q) = StatOf(src.subflows, q)
      /\ DOMAIN src'.subflows = DOMAIN found
      /\ \A i \in DOMAIN found : /\ src'.subflows[i].remote = found[i].remote
                                 /\ src'.subflows[i].iface = found[i].iface
  <2>1. pkt.seq = n[1] % SeqMod /\ pkt.sfseq = n[2] % SeqMod OBVIOUS
  <2> DEFINE d == ProcessRTP(src, pkt, RTP(p), p)
  <2> HIDE DEF pkt
  <2>2. /\ d \in SourceType /\ Distinct(d.subflows)
        /\ d.stat = ProcessPacket(src.stat, pkt.seq) /\ d.send_rr = src.send_rr
        /\ StatOf(d.subflows, p)
             = ProcessPacket(StatOf(src.subflows, p), pkt.sfseq)
        /\ \A q : q # p => StatOf(d.subflows, q) = StatOf(src.subflows, q)
        /\ DOMAIN d.subflows = DOMAIN found
        /\ \A i \in DOMAIN found : /\ d.subflows[i].remote = found[i].remote
                                   /\ d.subflows[i].iface = found[i].iface
    BY <1>4, <1>t, RTPEffect
  <2>3. src' = d BY <1>5
  <2> HIDE DEF d, found
  <2> QED BY <2>1, <2>2, <2>3
<1> HIDE DEF found, pkt
<1>9. Keeps(src.subflows, src'.subflows, RTP(p), p)
  BY <1>7, <1>8 DEF Grown, Keeps
<1>10. src'.subflows # <<>>
  BY <1>7, <1>8 DEF Ids
<1>11. /\ Counts(src, p) => 2 * (n[2] - high[p]) < SeqMod
       /\ told[p].counted => n[2] - told[p].high < WordMod
  BY <1>5, Zenon DEF Near
<1>12. given'.seq = n[1] /\ given'.ext = GivenNumber(src, pkt)
       /\ given'.opens = ~Counts(src, p)
  BY <1>5
<1> QED BY <1>3, <1>5, <1>6, <1>8, <1>9, <1>10, <1>11, <1>12 DEF n

(* A sender report makes records and counts for nobody. *)
LEMMA OnSREffect ==
  ASSUME Typed, Known, NEW p \in Paths, OnSR(p)
  PROVE  /\ src' \in SourceType /\ Distinct(src'.subflows)
         /\ src'.subflows # <<>> /\ src'.stat = src.stat
         /\ \A q : StatOf(src'.subflows, q) = StatOf(src.subflows, q)
         /\ Keeps(src.subflows, src'.subflows, RTCP(p), p)
<1>1. src \in SourceType /\ Distinct(src.subflows) BY DEF Typed, Known
<1>2. src' = ProcessSR(src, AllIds, RTCP(p), p) BY DEF OnSR
<1>3. /\ src' \in SourceType /\ Grown(src.subflows, src'.subflows, RTCP(p), p)
      /\ src'.subflows # <<>> /\ src'.stat = src.stat
      /\ \A q : StatOf(src'.subflows, q) = StatOf(src.subflows, q)
  BY <1>1, <1>2, SREffect
<1>4. Distinct(src'.subflows) BY <1>3 DEF Grown
<1>5. Keeps(src.subflows, src'.subflows, RTCP(p), p) BY <1>3 DEF Grown, Keeps
<1> QED BY <1>3, <1>4, <1>5

(* A poll of the receiver, with an answer due or not, changes no number    *)
(* and no address.                                                         *)
LEMMA OnPollEffect ==
  ASSUME Typed, Known, Poll
  PROVE  /\ src' \in SourceType /\ Distinct(src'.subflows)
         /\ src'.send_rr = FALSE /\ src'.stat.num_cycles = src.stat.num_cycles
         /\ DOMAIN src'.subflows = DOMAIN src.subflows
         /\ \A q : SameNumbers(StatOf(src'.subflows, q), StatOf(src.subflows, q))
         /\ \A from, iface : Keeps(src.subflows, src'.subflows, from, iface)
<1>1. src \in SourceType /\ Distinct(src.subflows) BY DEF Typed, Known
<1>2. src' = Answered(src) BY DEF Poll
<1>3. /\ src' \in SourceType /\ Distinct(src'.subflows)
      /\ src'.send_rr = FALSE /\ src'.stat.num_cycles = src.stat.num_cycles
      /\ DOMAIN src'.subflows = DOMAIN src.subflows
      /\ \A i \in DOMAIN src.subflows :
           /\ src'.subflows[i].remote = src.subflows[i].remote
           /\ src'.subflows[i].iface = src.subflows[i].iface
      /\ \A q : SameNumbers(StatOf(src'.subflows, q), StatOf(src.subflows, q))
  BY <1>1, <1>2, PollEffect
<1>4. \A from, iface : Keeps(src.subflows, src'.subflows, from, iface)
  BY <1>3 DEF Keeps
<1> QED BY <1>3, <1>4

(* What an answer says of a path, which told remembers. *)
LEMMA ToldIs ==
  ASSUME Typed, Known, Poll, NEW p \in Paths
  PROVE  LET st == StatOf(src.subflows, p)
         IN  /\ told' = [q \in Paths |-> told'[q]]
             /\ told'[p] \in ToldType
             /\ told'[p].counted =>
                  /\ st.received_data /\ told'[p].ext = st.exthighseqnr
                  /\ told'[p].high = high[p]
<1>1. answer' = Answer(src) BY DEF Poll
<1>2. answer'.blocks = [id \in Ids(src.subflows) |->
                          Record(src, id).recv_stat.exthighseqnr]
  BY <1>1 DEF Answer
<1>3. told' = [q \in Paths |->
        IF q \in DOMAIN answer'.blocks
        THEN [told |-> TRUE, counted |-> Counts(src, q),
              ext |-> answer'.blocks[q], high |-> high[q]]
        ELSE NotTold]
  BY DEF Poll
<1>4. Counts(src, p) <=> StatOf(src.subflows, p).received_data BY CountsIs
<1>5. Counts(src, p) \in BOOLEAN
  <2>1. src.subflows \in Seq(RecvSubflowType) /\ Distinct(src.subflows)
    BY DEF Typed, Known, SourceType
  <2>2. StatOf(src.subflows, p) \in StatsType BY <2>1, StatType
  <2> QED BY <2>1, <2>2, IdAt DEF Counts, StatOf, Record, StatsType
<1>6. CASE p \in Ids(src.subflows)
  <2>1. told'[p] = [told |-> TRUE, counted |-> Counts(src, p),
                    ext |-> StatOf(src.subflows, p).exthighseqnr, high |-> high[p]]
    <3>1. answer'.blocks[p] = StatOf(src.subflows, p).exthighseqnr
      BY <1>2, <1>6 DEF Record, StatOf
    <3>2. p \in DOMAIN answer'.blocks BY <1>2, <1>6
    <3> QED BY <1>3, <3>1, <3>2
  <2>2. StatOf(src.subflows, p).exthighseqnr \in Word /\ high[p] \in Nat
    <3>1. src.subflows \in Seq(RecvSubflowType) /\ Distinct(src.subflows)
      BY DEF Typed, Known, SourceType
    <3>2. StatOf(src.subflows, p) \in StatsType BY <3>1, StatType
    <3> QED BY <3>2 DEF StatsType, Typed
  <2>3. told' = [q \in Paths |-> told'[q]] BY <1>3
  <2>4. told'[p] \in ToldType
    <3>1. PICK b \in BOOLEAN : b = Counts(src, p) BY <1>5
    <3>2. PICK x \in Word : x = StatOf(src.subflows, p).exthighseqnr BY <2>2
    <3>3. PICK h \in Nat : h = high[p] BY <2>2
    <3>4. told'[p] = [told |-> TRUE, counted |-> b, ext |-> x, high |-> h]
      BY <2>1, <3>1, <3>2, <3>3, Zenon
    <3> QED BY <3>4 DEF ToldType
  <2>5. /\ told'[p].counted = Counts(src, p)
        /\ told'[p].ext = StatOf(src.subflows, p).exthighseqnr
        /\ told'[p].high = high[p]
    BY <2>1
  <2> QED BY <1>4, <2>3, <2>4, <2>5, Zenon
<1>7. CASE p \notin Ids(src.subflows)
  <2>1. told'[p] = NotTold BY <1>2, <1>3, <1>7
  <2> QED BY <1>3, <2>1, Widths DEF NotTold, ToldType, Word
<1> QED BY <1>6, <1>7

-----------------------------------------------------------------------------
(* The invariants are preserved by every step. *)

(* A source begins without subflows, without packets and with no answer    *)
(* due.                                                                    *)
LEMMA FreshSource ==
  /\ NewSource \in SourceType /\ NewSource.subflows = <<>>
  /\ NewSource.send_rr = FALSE
  /\ Distinct(NewSource.subflows)
  /\ \A q : StatOf(NewSource.subflows, q) = NewStats
  /\ NewSource.stat.num_cycles = 0
<1>1. NewSource = [stat |-> NewStats, subflows |-> <<>>, send_rr |-> FALSE]
  BY DEF NewSource
<1>2. <<>> \in Seq(RecvSubflowType) /\ NewStats \in StatsType BY NewStatsType
<1>3. NewSource \in SourceType BY <1>1, <1>2 DEF SourceType
<1>4. NewSource.subflows = <<>> /\ NewSource.stat = NewStats BY <1>1
<1>5. NewStats.num_cycles = 0 BY DEF NewStats
<1> QED BY <1>1, <1>3, <1>4, <1>5 DEF Distinct, StatOf, Ids

(* Before the first answer nothing has been said of any path. *)
LEMMA FreshTold == NotTold \in ToldType /\ NotTold.counted = FALSE
  BY Widths DEF NotTold, ToldType, Word

(* How the variables of the network and the sender may change. *)
LEMMA NetTypes ==
  ASSUME Typed, NEW p \in Paths
  PROVE  /\ SendData(p) => /\ seq' \in Nat /\ sfseq' \in [Paths -> Nat]
                           /\ net' \in [Paths -> Seq(Nat \X Nat)]
         /\ net[p] # <<>> /\ net' = [net EXCEPT ![p] = Tail(@)]
              => net' \in [Paths -> Seq(Nat \X Nat)]
<1>1. ASSUME SendData(p)
      PROVE  /\ seq' \in Nat /\ sfseq' \in [Paths -> Nat]
             /\ net' \in [Paths -> Seq(Nat \X Nat)]
  <2>1. PICK pair : pair = <<seq, sfseq[p]>> OBVIOUS
  <2>2. seq \in Nat /\ sfseq \in [Paths -> Nat] BY DEF Typed
  <2>3. pair \in Nat \X Nat BY <2>1, <2>2
  <2>4. net[p] \in Seq(Nat \X Nat) BY DEF Typed
  <2>5. Append(net[p], pair) \in Seq(Nat \X Nat) BY <2>3, <2>4
  <2>6. net' = [net EXCEPT ![p] = Append(@, pair)] BY <1>1, <2>1 DEF SendData
  <2> QED BY <1>1, <2>2, <2>5, <2>6 DEF Typed, SendData
<1>2. ASSUME net[p] # <<>>, net' = [net EXCEPT ![p] = Tail(@)]
      PROVE  net' \in [Paths -> Seq(Nat \X Nat)]
  <2>1. Tail(net[p]) \in Seq(Nat \X Nat) BY <1>2, LineTypes
  <2> QED BY <1>2, <2>1 DEF Typed
<1> QED BY <1>1, <1>2

(* Every step keeps the types. *)
LEMMA TypedStep == Typed /\ Known /\ [Next]_vars => Typed'
<1> SUFFICES ASSUME Typed, Known, [Next]_vars PROVE Typed'
  OBVIOUS
<1>1. ASSUME NEW p \in Paths, SendData(p) PROVE Typed'
  <2>1. UNCHANGED <<src, first, high, told, heard>>
    BY <1>1 DEF SendData, receiver
  <2> QED BY <1>1, <2>1, NetTypes DEF Typed
<1>2. ASSUME NEW p \in Paths, SendReport(p) PROVE Typed'
  BY <1>2 DEF SendReport, receiver, Typed
<1>3. ASSUME NEW p \in Paths, LosePacket(p) PROVE Typed'
  <2>1. UNCHANGED <<seq, sfseq, src, first, high, told, heard>>
    BY <1>3 DEF LosePacket, sender, receiver
  <2>2. net' \in [Paths -> Seq(Nat \X Nat)]
    BY <1>3, NetTypes DEF LosePacket
  <2> QED BY <2>1, <2>2 DEF Typed
<1>4. ASSUME NEW p \in Paths, LoseReport(p) PROVE Typed'
  BY <1>4 DEF LoseReport, sender, receiver, Typed
<1>5. ASSUME NEW p \in Paths, OnRTP(p) PROVE Typed'
  <2>1. net[p] # <<>> /\ net' = [net EXCEPT ![p] = Tail(@)]
    BY <1>5 DEF OnRTP
  <2>2. UNCHANGED <<seq, sfseq, told>> BY <1>5 DEF OnRTP, sender
  <2>3. net' \in [Paths -> Seq(Nat \X Nat)] BY <2>1, NetTypes
  <2>4. Head(net[p])[2] \in Nat BY <2>1, LineTypes
  <2>5. /\ src' \in SourceType
        /\ high' = [high EXCEPT ![p] = Head(net[p])[2]]
        /\ first' = first \/ first' = [first EXCEPT ![p] = Head(net[p])[2]]
    BY <1>5, OnRTPEffect
  <2>6. heard' \in {"nothing", "rtp", "sr"}
    BY <1>5 DEF OnRTP, FirstHeard, Typed
  <2> QED BY <2>2, <2>3, <2>4, <2>5, <2>6 DEF Typed
<1>6. ASSUME NEW p \in Paths, OnSR(p) PROVE Typed'
  <2>1. src' \in SourceType BY <1>6, OnSREffect
  <2>2. UNCHANGED <<seq, sfseq, net, first, high, told>>
    BY <1>6 DEF OnSR, sender
  <2>3. heard' \in {"nothing", "rtp", "sr"}
    BY <1>6 DEF OnSR, FirstHeard, Typed
  <2> QED BY <2>1, <2>2, <2>3 DEF Typed
<1>7. CASE Poll
  <2>1. src' \in SourceType BY <1>7, OnPollEffect
  <2>2. UNCHANGED <<seq, sfseq, net, first, high, heard>>
    BY <1>7 DEF Poll, sender
  <2>3. told' \in [Paths -> ToldType]
    <3>1. \A p \in Paths : told'[p] \in ToldType BY <1>7, ToldIs
    <3>2. told' = [q \in Paths |-> told'[q]] BY <1>7 DEF Poll
    <3> QED BY <3>1, <3>2
  <2> QED BY <2>1, <2>2, <2>3 DEF Typed
<1>8. CASE Restart
  <2>1. src' \in SourceType BY <1>8, FreshSource DEF Restart
  <2>2. UNCHANGED <<seq, sfseq, net>> BY <1>8 DEF Restart, sender
  <2>3. told' \in [Paths -> ToldType] BY <1>8, FreshTold DEF Restart
  <2>4. /\ first' \in [Paths -> Nat] /\ high' \in [Paths -> Nat]
        /\ heard' = "nothing"
    BY <1>8 DEF Restart
  <2> QED BY <2>1, <2>2, <2>3, <2>4 DEF Typed
<1>9. CASE UNCHANGED vars
  BY <1>9 DEF vars, sender, receiver, Typed
<1> QED BY <1>1, <1>2, <1>3, <1>4, <1>5, <1>6, <1>7, <1>8, <1>9 DEF Next

(* The address of the front subflow is the one the receiver first heard of *)
(* the source through.                                                     *)
LEMMA AddressesKept ==
  ASSUME Typed, Known, NEW how \in {"rtp", "sr"}, NEW p \in Paths, NEW t,
         Keeps(src.subflows, t, IF how = "rtp" THEN RTP(p) ELSE RTCP(p), p),
         t \in Seq(RecvSubflowType), t # <<>>
  PROVE  /\ \A i \in DOMAIN t : Addressed(t[i], "rtp") \/ Addressed(t[i], "sr")
         /\ Addressed(t[1], FirstHeard(how)) /\ FirstHeard(how) # "nothing"
<1> DEFINE s == src.subflows
<1>1. \A i \in DOMAIN s : Addressed(t[i], "rtp") <=> Addressed(s[i], "rtp")
  BY DEF Keeps, Addressed
<1>2. \A i \in DOMAIN s : Addressed(t[i], "sr") <=> Addressed(s[i], "sr")
  BY DEF Keeps, Addressed
<1>3. \A i \in DOMAIN t \ DOMAIN s : Addressed(t[i], how)
  BY DEF Keeps, Addressed
<1>4. \A i \in DOMAIN t : Addressed(t[i], "rtp") \/ Addressed(t[i], "sr")
  BY <1>1, <1>2, <1>3 DEF Known
<1>5. 1 \in DOMAIN t OBVIOUS
<1>s. s \in Seq(RecvSubflowType) BY DEF Typed, SourceType
<1>6. CASE s = <<>>
  <2>1. heard = "nothing" BY <1>6 DEF Known
  <2>2. FirstHeard(how) = how BY <2>1 DEF FirstHeard
  <2>3. 1 \notin DOMAIN s BY <1>6
  <2> QED BY <1>3, <1>4, <1>5, <2>2, <2>3
<1>7. CASE s # <<>>
  <2>1. heard # "nothing" /\ Addressed(s[1], heard) BY <1>7 DEF Known
  <2>2. FirstHeard(how) = heard /\ heard \in {"rtp", "sr"}
    BY <2>1 DEF FirstHeard, Typed
  <2>3. 1 \in DOMAIN s BY <1>7, <1>s
  <2> QED BY <1>1, <1>2, <1>4, <2>1, <2>2, <2>3
<1> QED BY <1>6, <1>7

(* Where an answer goes. *)
LEMMA AnswerAddress ==
  ASSUME Typed, Known, src.subflows # <<>>
  PROVE  /\ Answer(src).via \in Paths
         /\ Answer(src).to = [RTCP(Answer(src).via) EXCEPT
                                !.port = IF heard = "rtp" THEN @ ELSE 2]
         /\ Answer(src).to \in Endpoints
<1> DEFINE sf == src.subflows[1]
<1>1. src.subflows \in Seq(RecvSubflowType) BY DEF Typed, SourceType
<1>2. SelectSubflow(src.subflows) = sf /\ sf \in RecvSubflowType
  BY <1>1 DEF SelectSubflow
<1>3. Addressed(sf, heard) BY DEF Known
<1>4. sf.iface \in Paths BY <1>2 DEF RecvSubflowType
<1>5. /\ Answer(src).to = [sf.remote EXCEPT !.port = @ + 1]
      /\ Answer(src).via = sf.iface
  BY <1>2 DEF Answer
<1> HIDE DEF sf
<1>6. CASE heard = "rtp"
  <2>1. sf.remote = [host |-> sf.iface, port |-> 0]
    BY <1>3, <1>6 DEF Addressed, RTP
  <2>2. Answer(src).to = [host |-> sf.iface, port |-> 1] BY <1>5, <2>1
  <2>3. Answer(src).to = RTCP(sf.iface) BY <2>2 DEF RTCP
  <2>4. RTCP(sf.iface) = [RTCP(sf.iface) EXCEPT !.port = @] BY DEF RTCP
  <2>5. Answer(src).to \in Endpoints BY <1>4, <2>3, EndpointTypes
  <2> QED BY <1>4, <1>5, <1>6, <2>3, <2>4, <2>5
<1>7. CASE heard # "rtp"
  <2>1. sf.remote = [host |-> sf.iface, port |-> 1]
    BY <1>3, <1>7 DEF Addressed, RTCP
  <2>2. Answer(src).to = [host |-> sf.iface, port |-> 2] BY <1>5, <2>1
  <2>3. [RTCP(sf.iface) EXCEPT !.port = 2] = [host |-> sf.iface, port |-> 2]
    BY DEF RTCP
  <2>4. sf.iface \in 0..N BY <1>4, ReportingAssumption DEF Paths
  <2>5. Answer(src).to \in Endpoints BY <2>2, <2>4 DEF Endpoints
  <2> QED BY <1>4, <1>5, <1>7, <2>2, <2>3, <2>5
<1> QED BY <1>6, <1>7

(* Every step keeps the records apart and at their addresses, and its      *)
(* answer goes where the front one leads (select_subflow).                 *)
LEMMA KnownStep ==
  Typed /\ Known /\ AnswersReachSender /\ [Next]_vars
    => Known' /\ AnswersReachSender'
<1> SUFFICES ASSUME Typed, Known, AnswersReachSender, [Next]_vars
             PROVE  Known' /\ AnswersReachSender'
  OBVIOUS
<1>1. ASSUME UNCHANGED <<src, answer, heard>> PROVE Known' /\ AnswersReachSender'
  BY <1>1 DEF Known, AnswersReachSender
<1>2. ASSUME NEW p \in Paths,
             SendData(p) \/ SendReport(p) \/ LosePacket(p) \/ LoseReport(p)
      PROVE  Known' /\ AnswersReachSender'
  BY <1>1, <1>2 DEF SendData, SendReport, LosePacket, LoseReport, receiver
<1>3. ASSUME NEW p \in Paths, NEW how \in {"rtp", "sr"}, answer' = answer,
             heard' = FirstHeard(how), src' \in SourceType,
             Distinct(src'.subflows), src'.subflows # <<>>,
             Keeps(src.subflows, src'.subflows,
                   IF how = "rtp" THEN RTP(p) ELSE RTCP(p), p)
      PROVE  Known' /\ AnswersReachSender'
  <2>1. src'.subflows \in Seq(RecvSubflowType) BY <1>3 DEF SourceType
  <2>2. /\ \A i \in DOMAIN src'.subflows :
             Addressed(src'.subflows[i], "rtp") \/ Addressed(src'.subflows[i], "sr")
        /\ Addressed(src'.subflows[1], heard') /\ heard' # "nothing"
    BY <1>3, <2>1, AddressesKept
  <2>3. Known' BY <1>3, <2>2 DEF Known
  <2>4. answer # NoAnswer => heard' = heard
    BY <1>3 DEF Known, FirstHeard
  <2>5. AnswersReachSender' BY <1>3, <2>4 DEF AnswersReachSender
  <2> QED BY <2>3, <2>5
<1>4. ASSUME NEW p \in Paths, OnRTP(p) PROVE Known' /\ AnswersReachSender'
  <2>1. /\ src' \in SourceType /\ Distinct(src'.subflows)
        /\ Keeps(src.subflows, src'.subflows, RTP(p), p) /\ src'.subflows # <<>>
    BY <1>4, OnRTPEffect
  <2>2. answer' = answer /\ heard' = FirstHeard("rtp") BY <1>4 DEF OnRTP
  <2> QED BY <1>3, <2>1, <2>2
<1>5. ASSUME NEW p \in Paths, OnSR(p) PROVE Known' /\ AnswersReachSender'
  <2>1. /\ src' \in SourceType /\ Distinct(src'.subflows)
        /\ Keeps(src.subflows, src'.subflows, RTCP(p), p) /\ src'.subflows # <<>>
    BY <1>5, OnSREffect
  <2>2. answer' = answer /\ heard' = FirstHeard("sr") BY <1>5 DEF OnSR
  <2> QED BY <1>3, <2>1, <2>2
<1>6. CASE Poll
  <2>1. /\ src' \in SourceType /\ Distinct(src'.subflows) /\ src'.send_rr = FALSE
        /\ DOMAIN src'.subflows = DOMAIN src.subflows
        /\ Keeps(src.subflows, src'.subflows, RTP(1), 1)
    BY <1>6, OnPollEffect
  <2>2. answer' = Answer(src) /\ heard' = heard /\ src.send_rr BY <1>6 DEF Poll
  <2>3. src.subflows # <<>> BY <2>2 DEF Known
  <2>4. \A i \in DOMAIN src.subflows :
          /\ src'.subflows[i].remote = src.subflows[i].remote
          /\ src'.subflows[i].iface = src.subflows[i].iface
    BY <2>1 DEF Keeps
  <2>5. 1 \in DOMAIN src.subflows
    <3>1. src.subflows \in Seq(RecvSubflowType) BY DEF Typed, SourceType
    <3> QED BY <2>3, <3>1
  <2>6. src'.subflows # <<>> BY <2>1, <2>5
  <2>7. \A i \in DOMAIN src'.subflows :
          Addressed(src'.subflows[i], "rtp") \/ Addressed(src'.subflows[i], "sr")
    BY <2>1, <2>4 DEF Known, Addressed
  <2>8. Addressed(src'.subflows[1], heard') /\ heard' # "nothing"
    BY <2>2, <2>3, <2>4, <2>5 DEF Known, Addressed
  <2>9. /\ answer'.via \in Paths /\ answer'.to \in Endpoints
        /\ answer'.to = [RTCP(answer'.via) EXCEPT
                           !.port = IF heard' = "rtp" THEN @ ELSE 2]
    BY <2>2, <2>3, AnswerAddress
  <2>10. answer'.via \in 0..N BY <2>9, ReportingAssumption DEF Paths
  <2>11. Known' BY <2>1, <2>6, <2>7, <2>8, <2>9, <2>10 DEF Known
  <2>12. AnswersReachSender' BY <2>9 DEF AnswersReachSender
  <2> QED BY <2>11, <2>12
<1>7. CASE Restart
  <2>1. src' = NewSource /\ answer' = NoAnswer /\ heard' = "nothing"
    BY <1>7 DEF Restart
  <2>2. NoAnswer.via \in 0..N /\ NoAnswer.to \in Endpoints
    BY ReportingAssumption DEF NoAnswer, RTCP, Endpoints
  <2>3. Known' BY <2>1, <2>2, FreshSource DEF Known
  <2>4. AnswersReachSender' BY <2>1 DEF AnswersReachSender
  <2> QED BY <2>3, <2>4
<1>8. CASE UNCHANGED vars BY <1>1, <1>8 DEF vars, receiver
<1> QED BY <1>2, <1>4, <1>5, <1>6, <1>7, <1>8 DEF Next

(* A line stays in order at both of its ends. *)
LEMMA AppendedLine ==
  ASSUME NEW line \in Seq(Nat \X Nat), NEW top \in Nat, NEW x \in Nat,
         Increasing(line, top)
  PROVE  /\ Increasing(Append(line, <<x, top>>), top + 1)
         /\ \A n \in Nat : AllAbove(line, n) /\ n < top
              => AllAbove(Append(line, <<x, top>>), n)
<1>1. PICK pair : pair = <<x, top>> OBVIOUS
<1>2. pair \in Nat \X Nat /\ pair[2] = top BY <1>1
<1>3. PICK long : long = Append(line, pair) OBVIOUS
<1>4. /\ Len(line) \in Nat /\ DOMAIN line = 1..Len(line)
      /\ DOMAIN long = 1..(Len(line) + 1)
      /\ \A i \in 1..Len(line) : long[i] = line[i] /\ line[i] \in Nat \X Nat
      /\ long[Len(line) + 1] = pair
  BY <1>2, <1>3
<1>5. \A i \in 1..Len(line) : line[i][2] \in Nat BY <1>4
<1>6. ASSUME NEW i \in DOMAIN long
      PROVE  /\ long[i][2] < top + 1
             /\ \A j \in 1..(i - 1) : long[j][2] < long[i][2]
  <2>1. CASE i \in 1..Len(line)
    <3>1. long[i] = line[i] /\ \A j \in 1..(i - 1) : j \in 1..Len(line)
      BY <1>4, <2>1
    <3>2. \A j \in 1..(i - 1) : long[j] = line[j] BY <1>4, <3>1
    <3> QED BY SMTT(30), <1>4, <1>5, <2>1, <3>1, <3>2 DEF Increasing
  <2>2. CASE i = Len(line) + 1
    <3>1. \A j \in 1..(i - 1) : j \in DOMAIN line /\ long[j] = line[j]
      BY <1>4, <2>2
    <3>2. \A j \in DOMAIN line : line[j][2] < top BY DEF Increasing
    <3>3. long[i] = pair BY <1>4, <2>2
    <3>4. long[i][2] = top BY <1>2, <3>3
    <3>5. \A j \in 1..(i - 1) : long[j][2] < top BY <3>1, <3>2
    <3> QED BY <3>4, <3>5
  <2>3. i \in 1..(Len(line) + 1) BY <1>4
  <2>4. i \in 1..Len(line) \/ i = Len(line) + 1
    <3>1. PICK k \in Nat : k = Len(line) BY <1>4
    <3>2. i \in 1..(k + 1) BY <2>3, <3>1
    <3> QED BY <3>1, <3>2
  <2> QED BY <2>1, <2>2, <2>4
<1>7. ASSUME NEW n \in Nat, AllAbove(line, n), n < top PROVE AllAbove(long, n)
  <2> SUFFICES ASSUME NEW i \in DOMAIN long PROVE n < long[i][2]
    BY DEF AllAbove
  <2>1. CASE i \in 1..Len(line) BY <1>4, <1>7, <2>1 DEF AllAbove
  <2>2. CASE i = Len(line) + 1 BY <1>2, <1>4, <1>7, <2>2
  <2> QED BY <1>4, <2>1, <2>2
<1>8. Increasing(long, top + 1) BY <1>6 DEF Increasing
<1> QED BY <1>1, <1>3, <1>7, <1>8

(* Taking the first packet of a line leaves a line, all of it above that   *)
(* packet.                                                                 *)
LEMMA TailOfLine ==
  ASSUME NEW line \in Seq(Nat \X Nat), line # <<>>, NEW top \in Nat,
         Increasing(line, top)
  PROVE  /\ Increasing(Tail(line), top)
         /\ AllAbove(Tail(line), Head(line)[2]) /\ Head(line)[2] < top
         /\ \A n \in Nat : AllAbove(line, n)
              => AllAbove(Tail(line), n) /\ n < Head(line)[2]
<1>1. /\ Len(line) \in Nat \ {0} /\ DOMAIN line = 1..Len(line)
      /\ Head(line) = line[1] /\ 1 \in DOMAIN line
  OBVIOUS
<1>2. PICK rest : rest = Tail(line) OBVIOUS
<1>3. /\ DOMAIN rest = 1..(Len(line) - 1)
      /\ \A i \in DOMAIN rest : rest[i] = line[i + 1]
  BY <1>1, <1>2
<1>4. \A i \in DOMAIN rest : i \in Nat \ {0} /\ i + 1 \in DOMAIN line
  <2> SUFFICES ASSUME NEW i \in DOMAIN rest
               PROVE  i \in Nat \ {0} /\ i + 1 \in DOMAIN line
    OBVIOUS
  <2>1. PICK k \in Nat \ {0} : k = Len(line) BY <1>1
  <2>2. i \in 1..(k - 1) BY <1>3, <2>1
  <2>3. i \in Nat \ {0} /\ i + 1 \in 1..k BY <2>2
  <2> QED BY <1>1, <2>1, <2>3
<1>5. ASSUME NEW i \in DOMAIN rest
      PROVE  /\ rest[i][2] < top /\ line[1][2] < rest[i][2]
             /\ \A j \in 1..(i - 1) : rest[j][2] < rest[i][2]
  <2>1. 1 \in 1..((i + 1) - 1) BY <1>4
  <2>2. \A j \in 1..(i - 1) : j \in DOMAIN rest /\ j + 1 \in 1..((i + 1) - 1)
    <3> SUFFICES ASSUME NEW j \in 1..(i - 1)
                 PROVE  j \in DOMAIN rest /\ j + 1 \in 1..((i + 1) - 1)
      OBVIOUS
    <3>1. PICK k \in Nat : k = Len(line) BY <1>1
    <3>2. i \in 1..(k - 1) BY <1>3, <3>1
    <3>3. j \in 1..(k - 1) /\ j + 1 \in 1..((i + 1) - 1) BY <3>2
    <3> QED BY <1>3, <3>1, <3>3
  <2> QED BY <1>3, <1>4, <2>1, <2>2 DEF Increasing
<1>6. Increasing(rest, top) BY <1>5 DEF Increasing
<1>7. AllAbove(rest, line[1][2]) BY <1>5 DEF AllAbove
<1>8. line[1][2] < top BY <1>1 DEF Increasing
<1>9. \A n \in Nat : AllAbove(line, n) => AllAbove(rest, n) /\ n < line[1][2]
  BY <1>1, <1>3, <1>4 DEF AllAbove
<1> QED BY <1>1, <1>2, <1>6, <1>7, <1>8, <1>9

(* Every step keeps the packets of a path in line: new ones join at the    *)
(* end, losses leave gaps, and the one received becomes the highest.       *)
LEMMA LinedStep ==
  ASSUME Typed, Known, NEW p \in Paths, Lined(p), [Next]_vars
  PROVE  Lined(p)'
<1> DEFINE st == StatOf(src.subflows, p)
<1>t. /\ sfseq[p] \in Nat /\ high[p] \in Nat /\ net[p] \in Seq(Nat \X Nat)
      /\ seq \in Nat
  BY DEF Typed
<1>l. /\ Increasing(net[p], sfseq[p])
      /\ st.received_data => AllAbove(net[p], high[p]) /\ high[p] < sfseq[p]
  BY DEF Lined
<1>0. ASSUME sfseq'[p] = sfseq[p], high'[p] = high[p], net'[p] = net[p],
             st'.received_data = st.received_data
      PROVE  Lined(p)'
  BY <1>0, <1>l DEF Lined
<1>1. ASSUME NEW q \in Paths, SendData(q) PROVE Lined(p)'
  <2>1. high' = high /\ src' = src BY <1>1 DEF SendData, receiver
  <2>2. CASE q # p
    <3>1. sfseq'[p] = sfseq[p] /\ net'[p] = net[p]
      BY <1>1, <2>2 DEF SendData, Typed
    <3> QED BY <1>0, <2>1, <3>1
  <2>3. CASE q = p
    <3>1. sfseq'[p] = sfseq[p] + 1 /\ net'[p] = Append(net[p], <<seq, sfseq[p]>>)
      BY <1>1, <2>3 DEF SendData, Typed
    <3>2. /\ Increasing(Append(net[p], <<seq, sfseq[p]>>), sfseq[p] + 1)
          /\ AllAbove(net[p], high[p]) /\ high[p] < sfseq[p]
               => AllAbove(Append(net[p], <<seq, sfseq[p]>>), high[p])
      BY <1>t, <1>l, AppendedLine
    <3>3. high[p] < sfseq[p] => high[p] < sfseq[p] + 1 BY <1>t
    <3> QED BY <1>l, <2>1, <3>1, <3>2, <3>3, Zenon DEF Lined
  <2> QED BY <2>2, <2>3
<1>2. ASSUME NEW q \in Paths, SendReport(q) \/ LoseReport(q) PROVE Lined(p)'
  BY <1>0, <1>2 DEF SendReport, LoseReport, sender, receiver
<1>3. ASSUME net[p] # <<>>, net'[p] = Tail(net[p]), sfseq'[p] = sfseq[p],
             \/ high'[p] = high[p] /\ st'.received_data = st.received_data
             \/ high'[p] = Head(net[p])[2]
      PROVE  Lined(p)'
  <2>1. /\ Increasing(Tail(net[p]), sfseq[p])
        /\ AllAbove(Tail(net[p]), Head(net[p])[2]) /\ Head(net[p])[2] < sfseq[p]
        /\ AllAbove(net[p], high[p]) => AllAbove(Tail(net[p]), high[p])
    BY <1>3, <1>t, <1>l, TailOfLine
  <2> QED BY <1>3, <1>l, <2>1 DEF Lined
<1>4. ASSUME NEW q \in Paths, LosePacket(q) PROVE Lined(p)'
  <2>1. UNCHANGED <<sfseq, high, src>> BY <1>4 DEF LosePacket, sender, receiver
  <2>2. net[q] # <<>> /\ net'[p] = IF q = p THEN Tail(net[p]) ELSE net[p]
    BY <1>4 DEF LosePacket, Typed
  <2> QED BY <1>0, <1>3, <2>1, <2>2
<1>5. ASSUME NEW q \in Paths, OnRTP(q) PROVE Lined(p)'
  <2>1. sfseq' = sfseq BY <1>5 DEF OnRTP, sender
  <2>2. net[q] # <<>> /\ net'[p] = IF q = p THEN Tail(net[p]) ELSE net[p]
    BY <1>5 DEF OnRTP, Typed
  <2>3. /\ high'[p] = IF q = p THEN Head(net[p])[2] ELSE high[p]
        /\ q # p => st' = st
    BY <1>5, OnRTPEffect DEF Typed
  <2> QED BY <1>0, <1>3, <2>1, <2>2, <2>3
<1>6. ASSUME NEW q \in Paths, OnSR(q) PROVE Lined(p)'
  BY <1>0, <1>6, OnSREffect DEF OnSR, sender
<1>7. CASE Poll
  BY <1>0, <1>7, OnPollEffect DEF Poll, sender, SameNumbers
<1>8. CASE Restart
  <2>1. st' = NewStats /\ UNCHANGED <<sfseq, net>>
    BY <1>8, FreshSource DEF Restart, sender
  <2>2. ~st'.received_data BY <2>1 DEF NewStats
  <2> QED BY <1>l, <2>1, <2>2 DEF Lined
<1>9. CASE UNCHANGED vars BY <1>0, <1>9 DEF vars, sender, receiver
<1> QED BY <1>1, <1>2, <1>4, <1>5, <1>6, <1>7, <1>8, <1>9 DEF Next

(* The record of a path changes with the packets of that path alone.       *)
LEMMA TrackedKept ==
  ASSUME NEW p \in Paths, Tracked(p),
         SameNumbers(StatOf(src'.subflows, p), StatOf(src.subflows, p)),
         first'[p] = first[p], high'[p] = high[p], told'[p] = told[p]
  PROVE  Tracked(p)'
  BY DEF Tracked, SameNumbers, OriginOf

(* The statistics of any path have their type in every state. *)
LEMMA StatHere ==
  ASSUME Typed, Known, NEW p \in Paths
  PROVE  StatOf(src.subflows, p) \in StatsType
<1>1. src.subflows \in Seq(RecvSubflowType) /\ Distinct(src.subflows)
  BY DEF Typed, Known, SourceType
<1> QED BY <1>1, StatType

(* A packet gives the record of its path the right numbers.                *)
LEMMA TrackedPacket ==
  ASSUME Typed, Known, NEW p \in Paths, Lined(p), Tracked(p), OnRTP(p)
  PROVE  Tracked(p)'
<1> DEFINE st == StatOf(src.subflows, p)
           n == Head(net[p])[2]
<1>t. st \in StatsType BY StatHere
<1>1. net[p] # <<>> /\ told' = told BY DEF OnRTP
<1>2. n \in Nat /\ n = net[p][1][2] /\ 1 \in DOMAIN net[p] BY <1>1, LineTypes
<1>3. st' = ProcessPacket(st, n % SeqMod) BY OnRTPEffect
<1>4. st'.received_data BY <1>t, <1>3, CountsUp
<1>5. /\ high'[p] = n
      /\ first'[p] = IF st.received_data THEN first[p] ELSE n
      /\ st.received_data => 2 * (n - high[p]) < SeqMod
      /\ told[p].counted => n - told[p].high < WordMod
  BY OnRTPEffect DEF Typed
<1>6. high[p] \in Nat /\ first[p] \in Nat /\ told[p] \in ToldType BY DEF Typed
<1>7. CASE ~st.received_data
  <2>1. st' = FirstPacket(st, n % SeqMod) BY <1>3, <1>7 DEF ProcessPacket
  <2>2. st.num_cycles = 0 /\ ~told[p].counted BY <1>7 DEF Tracked
  <2>3. /\ st'.exthighseqnr = (n - OriginOf(n)) % WordMod
        /\ st'.num_cycles = (n - (n % SeqMod) - OriginOf(n)) % WordMod
        /\ st'.baseseqnr = (n - 1 - OriginOf(n)) % WordMod
    BY <1>2, <1>t, <2>1, <2>2, FirstPacketExact DEF OriginOf
  <2>4. first'[p] = n BY <1>5, <1>7
  <2> QED BY <1>1, <1>4, <1>5, <2>2, <2>3, <2>4 DEF Tracked
<1>8. CASE st.received_data
  <2> DEFINE o == OriginOf(first[p])
  <2>1. st' = LaterPacket(st, n % SeqMod) BY <1>3, <1>8 DEF ProcessPacket
  <2>2. high[p] < n BY <1>2, <1>8 DEF Lined, AllAbove
  <2>3. o \in Int /\ o % SeqMod = 0 BY <1>6, OriginType DEF OriginOf
  <2>4. /\ st.exthighseqnr = (high[p] - o) % WordMod
        /\ st.num_cycles = (high[p] - (high[p] % SeqMod) - o) % WordMod
        /\ st.baseseqnr = (first[p] - 1 - o) % WordMod
    BY <1>8 DEF Tracked
  <2>5. told[p].counted =>
          /\ told[p].ext = (told[p].high - o) % WordMod
          /\ told[p].high <= high[p]
    BY DEF Tracked
  <2> HIDE DEF o, n, st
  <2>6. high[p] \in Int /\ n \in Int BY <1>2, <1>6
  <2>7. n >= high[p] => 2 * (n - high[p]) < SeqMod BY <1>5, <1>8
  <2>8. ~(n < high[p]) /\ ~(high[p] > n) BY <2>2, <2>6
  <2>9. LET t == LaterPacket(st, n % SeqMod)
            top == IF high[p] > n THEN high[p] ELSE n
        IN  /\ t.exthighseqnr = (top - o) % WordMod
            /\ t.num_cycles = (top - (top % SeqMod) - o) % WordMod
    BY <1>t, <2>3, <2>4, <2>6, <2>7, <2>8, LaterPacketExact
  <2>10. /\ st'.exthighseqnr = (n - o) % WordMod
         /\ st'.num_cycles = (n - (n % SeqMod) - o) % WordMod
    BY <2>1, <2>8, <2>9
  <2>11. st'.baseseqnr = st.baseseqnr BY <1>t, <2>1, OtherFieldsKept
  <2>12. first'[p] = first[p] BY <1>5, <1>8
  <2>13. told[p].counted => told[p].high <= n /\ n - told[p].high < WordMod
    <3>1. told[p].high \in Nat BY <1>6 DEF ToldType
    <3> QED BY <1>5, <2>2, <2>5, <2>6, <3>1
  <2> QED BY <1>1, <1>4, <1>5, <2>4, <2>5, <2>10, <2>11, <2>12, <2>13
          DEF Tracked, o, st
<1> QED BY <1>7, <1>8

(* Every step keeps a path's statistics at the numbers its own packets     *)
(* give it, because they come in order and Near the last; those of other   *)
(* paths do not touch it.                                                  *)
LEMMA TrackedStep ==
  ASSUME Typed, Known, NEW p \in Paths, Lined(p), Tracked(p), [Next]_vars
  PROVE  Tracked(p)'
<1> DEFINE st == StatOf(src.subflows, p)
<1>1. ASSUME UNCHANGED <<src, first, high, told>> PROVE Tracked(p)'
  BY <1>1, TrackedKept DEF SameNumbers
<1>2. ASSUME NEW q \in Paths,
             SendData(q) \/ SendReport(q) \/ LosePacket(q) \/ LoseReport(q)
      PROVE  Tracked(p)'
  BY <1>1, <1>2 DEF SendData, SendReport, LosePacket, LoseReport, receiver
<1>3. ASSUME NEW q \in Paths, OnRTP(q) PROVE Tracked(p)'
  <2>1. CASE q = p BY <1>3, <2>1, TrackedPacket
  <2>2. CASE q # p
    <3>1. told' = told BY <1>3 DEF OnRTP
    <3>2. /\ StatOf(src'.subflows, p) = st
          /\ high'[p] = high[p] /\ first'[p] = first[p]
      BY ZenonT(30), <1>3, <2>2, OnRTPEffect DEF Typed
    <3> QED BY <3>1, <3>2, TrackedKept DEF SameNumbers
  <2> QED BY <2>1, <2>2
<1>4. ASSUME NEW q \in Paths, OnSR(q) PROVE Tracked(p)'
  <2>1. StatOf(src'.subflows, p) = st BY <1>4, OnSREffect
  <2>2. UNCHANGED <<first, high, told>> BY <1>4 DEF OnSR
  <2> QED BY <2>1, <2>2, TrackedKept DEF SameNumbers
<1>5. CASE Poll
  <2>1. SameNumbers(StatOf(src'.subflows, p), st) BY <1>5, OnPollEffect
  <2>2. UNCHANGED <<first, high>> BY <1>5 DEF Poll
  <2>3. told'[p].counted => /\ st.received_data /\ told'[p].ext = st.exthighseqnr
                            /\ told'[p].high = high[p]
    BY <1>5, ToldIs
  <2>4. high[p] <= high[p] /\ high[p] - high[p] < WordMod
    <3>1. high[p] \in Nat BY DEF Typed
    <3> QED BY <3>1, Widths
  <2>5. OriginOf(first[p])' = OriginOf(first[p]) BY <2>2 DEF OriginOf
  <2> QED BY <2>1, <2>2, <2>3, <2>4, <2>5 DEF Tracked, SameNumbers
<1>6. CASE Restart
  <2>1. StatOf(src'.subflows, p) = NewStats BY <1>6, FreshSource DEF Restart
  <2>2. NewStats.received_data = FALSE /\ NewStats.num_cycles = 0
    BY DEF NewStats
  <2>3. told'[p] = NotTold BY <1>6 DEF Restart
  <2> QED BY <2>1, <2>2, <2>3, FreshTold DEF Tracked
<1>7. CASE UNCHANGED vars BY <1>1, <1>7 DEF vars, receiver
<1> QED BY <1>2, <1>3, <1>4, <1>5, <1>6, <1>7 DEF Next

(* Cycles are counted whole.                                               *)
LEMMA WholeCyclesOf ==
  ASSUME NEW c \in StatsType, c.num_cycles % SeqMod = 0, NEW x \in Seq16
  PROVE  /\ ProcessPacket(c, x).num_cycles % SeqMod = 0
         /\ AssignedSeq(c, x) % SeqMod = x
<1>1. /\ SeqMod \in Nat \ {0} /\ WordMod \in Nat \ {0} /\ WordMod % SeqMod = 0
      /\ SeqMod \in Int /\ x \in Int /\ c.num_cycles \in Int
      /\ x % SeqMod = x /\ SeqMod % SeqMod = 0 /\ x \in 0..(SeqMod - 1)
  BY Widths DEF Seq16, StatsType, Word
<1>2. \A y, z \in Int : y % SeqMod = 0 => ((y + z) % WordMod) % SeqMod = z % SeqMod
  <2> SUFFICES ASSUME NEW y \in Int, NEW z \in Int, y % SeqMod = 0
               PROVE  ((y + z) % WordMod) % SeqMod = z % SeqMod
    OBVIOUS
  <2>1. y + z \in Int OBVIOUS
  <2>2. ((y + z) % WordMod) % SeqMod = (y + z) % SeqMod
    BY <1>1, <2>1, ModMod, Zenon
  <2>3. ((y % SeqMod) + z) % SeqMod = (y + z) % SeqMod BY <1>1, ModAdd, Zenon
  <2>4. 0 + z = z OBVIOUS
  <2> QED BY <2>2, <2>3, <2>4
<1>3. CyclesAt(c, x) \in Int /\ CyclesAt(c, x) % SeqMod = 0
  <2>1. c.num_cycles + SeqMod \in Int BY <1>1
  <2>2. (c.num_cycles + SeqMod) % WordMod \in 0..(WordMod - 1)
    BY <1>1, <2>1, DivMod, Zenon
  <2>3. ((c.num_cycles + SeqMod) % WordMod) % SeqMod = 0 BY <1>1, <1>2
  <2> QED BY <1>1, <2>2, <2>3 DEF CyclesAt, Plus32
<1>4. ExtendedSeq(c, x) % SeqMod = x
  BY <1>1, <1>2, <1>3 DEF ExtendedSeq, Plus32
<1>5. LaterPacket(c, x).num_cycles = CyclesAt(c, x)
  BY DEF LaterPacket, Counted, StatsType
<1>6. FirstPacket(c, x).num_cycles = IF x = 0 THEN SeqMod ELSE c.num_cycles
  BY DEF FirstPacket, Counted, StatsType
<1>7. FirstPacket(c, x).exthighseqnr % SeqMod = x
  <2>1. FirstPacket(c, x).exthighseqnr = IF x = 0 THEN SeqMod ELSE x
    BY <1>1 DEF FirstPacket, Counted, StatsType
  <2> QED BY <1>1, <2>1
<1> QED BY <1>1, <1>3, <1>4, <1>5, <1>6, <1>7 DEF ProcessPacket, AssignedSeq

(* Every step keeps NumbersKept: the stream's cycles are whole, so the     *)
(* number written last, cycles and packet number, still shows the packet's *)
(* own.                                                                    *)
LEMMA NumbersStep ==
  Typed /\ Known /\ WholeCycles /\ NumbersKept /\ [Next]_vars
    => WholeCycles' /\ NumbersKept'
<1> SUFFICES ASSUME Typed, Known, WholeCycles, NumbersKept, [Next]_vars
             PROVE  WholeCycles' /\ NumbersKept'
  OBVIOUS
<1>1. ASSUME src'.stat.num_cycles = src.stat.num_cycles, given' = given
      PROVE  WholeCycles' /\ NumbersKept'
  BY <1>1 DEF WholeCycles, NumbersKept
<1>2. ASSUME NEW p \in Paths,
             SendData(p) \/ SendReport(p) \/ LosePacket(p) \/ LoseReport(p)
      PROVE  WholeCycles' /\ NumbersKept'
  BY <1>1, <1>2 DEF SendData, SendReport, LosePacket, LoseReport, receiver
<1>3. ASSUME NEW p \in Paths, OnRTP(p) PROVE WholeCycles' /\ NumbersKept'
  <2> DEFINE x == Head(net[p])[1] % SeqMod
  <2>1. Head(net[p])[1] \in Nat BY <1>3, LineTypes DEF OnRTP
  <2>2. x \in Seq16 BY <2>1, SeqType
  <2>3. src.stat \in StatsType BY DEF Typed, SourceType
  <2>4. /\ src'.stat = ProcessPacket(src.stat, x)
        /\ given'.seq = Head(net[p])[1]
        /\ ~given'.opens => given'.ext = AssignedSeq(src.stat, x)
    BY <1>3, OnRTPEffect
  <2> HIDE DEF x
  <2>5. /\ ProcessPacket(src.stat, x).num_cycles % SeqMod = 0
        /\ AssignedSeq(src.stat, x) % SeqMod = x
    BY <2>2, <2>3, WholeCyclesOf DEF WholeCycles
  <2> QED BY <2>4, <2>5 DEF WholeCycles, NumbersKept, x
<1>4. ASSUME NEW p \in Paths, OnSR(p) PROVE WholeCycles' /\ NumbersKept'
  <2>1. src'.stat = src.stat BY <1>4, OnSREffect
  <2>2. given' = given BY <1>4 DEF OnSR
  <2> QED BY <1>1, <2>1, <2>2
<1>5. CASE Poll
  <2>1. src'.stat.num_cycles = src.stat.num_cycles BY <1>5, OnPollEffect
  <2>2. given' = given BY <1>5 DEF Poll
  <2> QED BY <1>1, <2>1, <2>2
<1>6. CASE Restart
  <2>1. src'.stat.num_cycles = 0 BY <1>6, FreshSource DEF Restart
  <2>2. given'.opens BY <1>6 DEF Restart, NotGiven
  <2> QED BY <2>1, <2>2, Widths DEF WholeCycles, NumbersKept
<1>7. CASE UNCHANGED vars BY <1>1, <1>7 DEF vars, receiver
<1> QED BY <1>2, <1>3, <1>4, <1>5, <1>6, <1>7 DEF Next

-----------------------------------------------------------------------------
(* The inductive invariant, from the first state on.                       *)
InOrder == \A p \in Paths : Lined(p) /\ Tracked(p)
Invariant == Typed /\ Known /\ InOrder

(* All invariants hold before the first packet. *)
LEMMA InvariantInit ==
  Init => Invariant /\ AnswersReachSender /\ WholeCycles /\ NumbersKept
<1> SUFFICES ASSUME Init
             PROVE  Invariant /\ AnswersReachSender /\ WholeCycles /\ NumbersKept
  OBVIOUS
<1>1. FirstNumbers \subseteq Nat BY ReportingAssumption, Widths
<1>2. Typed
  <2>1. src \in SourceType BY FreshSource DEF Init
  <2>2. told \in [Paths -> ToldType] BY FreshTold DEF Init
  <2>3. net \in [Paths -> Seq(Nat \X Nat)] BY DEF Init
  <2>4. seq \in Nat /\ sfseq \in [Paths -> Nat] BY <1>1 DEF Init
  <2> QED BY <2>1, <2>2, <2>3, <2>4 DEF Init, Typed
<1>3. Known
  <2>1. NoAnswer.via \in 0..N /\ NoAnswer.to \in Endpoints
    BY ReportingAssumption DEF NoAnswer, RTCP, Endpoints
  <2> QED BY <2>1, FreshSource DEF Init, Known
<1>4. ASSUME NEW p \in Paths PROVE Lined(p) /\ Tracked(p)
  <2>1. StatOf(src.subflows, p) = NewStats BY FreshSource DEF Init
  <2>2. NewStats.received_data = FALSE /\ NewStats.num_cycles = 0
    BY DEF NewStats
  <2>3. net[p] = <<>> /\ told[p] = NotTold BY DEF Init
  <2> QED BY <2>1, <2>2, <2>3, FreshTold DEF Lined, Tracked, Increasing
<1>5. AnswersReachSender BY DEF Init, AnswersReachSender
<1>6. WholeCycles /\ NumbersKept
  BY FreshSource, Widths DEF Init, WholeCycles, NumbersKept, NotGiven
<1> QED BY <1>2, <1>3, <1>4, <1>5, <1>6 DEF Invariant, InOrder

(* No step leaves the invariant; an answer is only given when there is a   *)
(* subflow to give it on, so that its destination belongs to Known's step. *)
LEMMA InvariantStep ==
  Invariant /\ AnswersReachSender /\ WholeCycles /\ NumbersKept /\ [Next]_vars
    => Invariant' /\ AnswersReachSender' /\ WholeCycles' /\ NumbersKept'
<1> SUFFICES ASSUME Invariant, AnswersReachSender, WholeCycles, NumbersKept,
                    [Next]_vars
             PROVE  Invariant' /\ AnswersReachSender' /\ WholeCycles' /\ NumbersKept'
  OBVIOUS
<1>1. Typed /\ Known /\ \A p \in Paths : Lined(p) /\ Tracked(p)
  BY DEF Invariant, InOrder
<1>2. Typed' BY <1>1, TypedStep
<1>3. Known' /\ AnswersReachSender' BY <1>1, KnownStep
<1>4. ASSUME NEW p \in Paths PROVE (Lined(p) /\ Tracked(p))'
  <2>1. Lined(p) /\ Tracked(p) BY <1>1
  <2> QED BY <1>1, <2>1, LinedStep, TrackedStep
<1>5. WholeCycles' /\ NumbersKept' BY <1>1, NumbersStep
<1>6. InOrder' BY <1>4 DEF InOrder
<1> QED BY <1>2, <1>3, <1>5, <1>6 DEF Invariant

(* All of it, in every state.                                              *)
THEOREM InvariantAlways ==
  Spec => [](Invariant /\ AnswersReachSender /\ WholeCycles /\ NumbersKept)
  BY InvariantInit, InvariantStep, PTL DEF Spec

(* The source keeps one record for each subflow, and when it owes the      *)
(* sender an answer it has a subflow to give it on: the front of the       *)
(* vector that select_subflow takes exists.                                *)
THEOREM TypeCorrect == Spec => []TypeOK
<1>1. Invariant => TypeOK
  <2> SUFFICES ASSUME Invariant PROVE TypeOK
    OBVIOUS
  <2>1. Typed /\ Known BY DEF Invariant
  <2>2. src.subflows \in Seq(RecvSubflowType) /\ Distinct(src.subflows)
        /\ src.stat \in StatsType /\ src.send_rr \in BOOLEAN
    BY <2>1 DEF Typed, Known, SourceType
  <2>3. \A i \in DOMAIN src.subflows :
          /\ src.subflows[i] \in RecvSubflowType
          /\ Index(src.subflows, src.subflows[i].id) = i
    BY <2>2, IndexOf
  <2> QED BY <2>1, <2>2, <2>3 DEF Typed, Known, TypeOK
<1> QED BY <1>1, InvariantAlways, PTL

(* The record of a path that counts.                                       *)
LEMMA CountedRecord ==
  ASSUME Invariant, NEW p \in Paths, StatOf(src.subflows, p).received_data
  PROVE  /\ Record(src, p).recv_stat = StatOf(src.subflows, p)
         /\ high[p] \in Int /\ first[p] \in Int /\ told[p].high \in Int
         /\ OriginOf(first[p]) \in Int
<1>1. p \in Ids(src.subflows) BY DEF StatOf, NewStats
<1>2. high[p] \in Nat /\ first[p] \in Nat /\ told[p] \in ToldType
  BY DEF Invariant, Typed
<1>3. OriginOf(first[p]) \in Int BY <1>2, OriginType DEF OriginOf
<1> QED BY <1>1, <1>2, <1>3 DEF Record, StatOf, ToldType

(* However the paths delay each other's packets, the statistics of a path  *)
(* place its packets as far apart as they were sent.                       *)
THEOREM PathsAlwaysApart == Spec => []PathsApart
<1>1. ASSUME Invariant, NEW p \in Paths, Counts(src, p)
      PROVE  ExpectedTotal(Record(src, p).recv_stat)
               = (high[p] - first[p] + 1) % WordMod
  <2> DEFINE st == StatOf(src.subflows, p)
             o == OriginOf(first[p])
  <2>1. st.received_data BY <1>1, CountsIs
  <2>2. /\ Record(src, p).recv_stat = st
        /\ high[p] \in Int /\ first[p] \in Int /\ o \in Int
    BY <1>1, <2>1, CountedRecord
  <2>3. /\ st.exthighseqnr = (high[p] - o) % WordMod
        /\ st.baseseqnr = (first[p] - 1 - o) % WordMod
    BY <1>1, <2>1 DEF Invariant, InOrder, Tracked
  <2> HIDE DEF st, o
  <2>4. high[p] - o \in Int /\ first[p] - 1 - o \in Int BY <2>2
  <2>5. (((high[p] - o) % WordMod) - ((first[p] - 1 - o) % WordMod)) % WordMod
          = ((high[p] - o) - (first[p] - 1 - o)) % WordMod
    BY <2>4, Widths, ModSub, Zenon
  <2>6. (high[p] - o) - (first[p] - 1 - o) = high[p] - first[p] + 1 BY <2>2
  <2> QED BY <2>2, <2>3, <2>5, <2>6 DEF ExpectedTotal, Minus32
<1>2. Invariant => PathsApart BY <1>1 DEF PathsApart
<1> QED BY <1>2, InvariantAlways, PTL

(* Between two answers of one receiver process, the highest number told of *)
(* a path rises by exactly the numbers sent on it in between, as long as   *)
(* the earlier answer was about a path that had delivered a packet.        *)
THEOREM ProgressAlwaysReal == Spec => []ProgressIsReal
<1>1. ASSUME Invariant, NEW p \in Paths, told[p].told, told[p].counted
      PROVE  Minus32(Record(src, p).recv_stat.exthighseqnr, told[p].ext)
               = high[p] - told[p].high
  <2> DEFINE st == StatOf(src.subflows, p)
             o == OriginOf(first[p])
  <2>1. /\ st.received_data /\ told[p].ext = (told[p].high - o) % WordMod
        /\ told[p].high <= high[p] /\ high[p] - told[p].high < WordMod
        /\ st.exthighseqnr = (high[p] - o) % WordMod
    BY <1>1 DEF Invariant, InOrder, Tracked
  <2>2. /\ Record(src, p).recv_stat = st
        /\ high[p] \in Int /\ told[p].high \in Int /\ o \in Int
    BY <1>1, <2>1, CountedRecord
  <2> HIDE DEF st, o
  <2>3. high[p] - o \in Int /\ told[p].high - o \in Int BY <2>2
  <2>4. (((high[p] - o) % WordMod) - ((told[p].high - o) % WordMod)) % WordMod
          = ((high[p] - o) - (told[p].high - o)) % WordMod
    BY <2>3, Widths, ModSub, Zenon
  <2>5. (high[p] - o) - (told[p].high - o) = high[p] - told[p].high BY <2>2
  <2>6. high[p] - told[p].high \in 0..(WordMod - 1) BY <2>1, <2>2, Widths
  <2>7. (high[p] - told[p].high) % WordMod = high[p] - told[p].high
    BY <2>6, Widths
  <2> QED BY <2>1, <2>2, <2>4, <2>5, <2>7 DEF Minus32
<1>2. Invariant => ProgressIsReal BY <1>1 DEF ProgressIsReal
<1> QED BY <1>2, InvariantAlways, PTL

(* Every answer goes to a host and over the interface of one path, to its  *)
(* RTCP port if the receiver first heard of the source through a packet,   *)
(* and to a port nobody listens on if through a sender report.             *)
THEOREM AnswersAlwaysReachSender == Spec => []AnswersReachSender
  BY InvariantAlways, PTL

(* The numbers the application sees are those of the RTP headers, but for  *)
(* the first packet of each subflow.                                       *)
THEOREM NumbersAlwaysKept == Spec => []NumbersKept
  BY InvariantAlways, PTL
=============================================================================
