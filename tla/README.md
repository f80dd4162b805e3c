# A TLA+ model of mprtplib

mprtplib sends an RTP stream over several paths at once (Multipath RTP,
draft-ietf-avtcore-mprtp-03). Each path is a *subflow* with sequence numbers of
its own; the receiver reports per subflow what it lost, and the sender moves
packets from the paths that lose to those that do not. The library is about
2300 lines of C++ without threads; the only threads are those of
`examples/client.cpp`.

This directory holds TLA+ modules translated from that code, TLC
configurations that check them on small instances, and TLAPS proofs of the
most important results for all values of the constants. Source paths below are
relative to `src/` of the checkout this directory lies beside (so
`src/mprtp_stat.cpp` is `src/src/mprtp_stat.cpp` in `PROJECT.json`).

## Inventory

| component | state | operations | what makes it correct |
|---|---|---|---|
| **source_stats** `src/mprtp_stat.cpp`, `include/mprtp_stat.h` | first/highest extended number, cycles, packet counters, the mark of the last report, jitter | `process_packet`, `fill_receiver_report` | 16-bit numbers are extended to 32 bits that keep the true distances; every interval between reports is exact; a reported loss is real; conversions stay in range |
| **subflow** `src/mprtp_subflow.cpp`, `include/mprtp_subflow.h` | number and counters of sent packets, last report, tested bitrate TB, congested bitrate CB, congestion indicator CI and the time of its last change, share | `sendto`, `process_rr_packet`, `is_congested`, `is_lossy` | bitrates are set before they are used and bounded by what the path carried; CI stays in range and decays slowly |
| **sender** `src/mprtp_sender.cpp` | the subflows and their shares, the stream's bitrate SB, timestamps, totals, timers | `connect`, `send_data`, `poll`, `on_rtcp_rr_packet` | shares add up; loss is never rewarded; every path is used until it is measured; reports and timestamps keep time |
| **source, receiver** `src/mprtp_source.cpp`, `src/mprtp_receiver.cpp` | per SSRC: session statistics, subflows with addresses and statistics, whether a report is due | `process_packet`, `process_sr_packet`, `poll` | one report per sender report, sent to where the sender listens |
| **session** `src/mprtp_session.cpp` | interfaces, queue of received packets | `poll`, `add_interface`, `suspend_interface`, `fetch_packet`, dispatch of RTP/RTCP | every received packet reaches its handler once, whatever one interface does |
| **interface** `src/mprtp_interface.cpp`, `include/mprtp_select.h` | two sockets, queue of raw packets | `open`, `sendto`, `poll`, destructor | sockets are closed once; packets stay in order |
| **packets** `src/mprtp_packet.cpp`, `*_packet.*`, `mprtp_compound_packet.h`, `mprtp_struct.h` | — | parse and build | what is built is what is parsed; lengths and bounds |
| **rtp_time** `include/mprtp_time.h` | seconds and microseconds | clock, arithmetic, NTP | no rounding to the wrong second |
| **client** `examples/client.cpp` | two threads, a mutex, a stop flag, a signal handler | | one library call at a time; lines get sent; CTRL+C ends it |
| **server** `examples/server.cpp` | one loop | | |

Interaction: the application calls `send_data` and `poll`. `send_data` draws a
subflow by the shares and sends a packet with the subflow's number. The
receiver's `poll` hands each packet to the source of its SSRC, whose statistics
and whose subflow's statistics process it. Sender reports, every five seconds,
make the receiver send one compound packet with a receiver report per subflow.
The sender's `poll` hands each to its subflow and then recomputes the shares.

Hard behaviours: wrap-around of 16 and 32-bit numbers under reordering; lost,
repeated and reordered reports (the code keeps no record of which it has seen);
division by zero in the shares; a feedback loop in which a path without packets
gets no reports; the client's signal handler. `PROJECT.json` lists them under
`hazards`, each at its line.

## Modules

| module | models | role |
|---|---|---|
| `Words` | `uint16_t` and `uint32_t` | widths as constants, arithmetic modulo them |
| `SourceStats` | `source_stats` | its state as a record, its methods as operators |
| `StatsStream` | one subflow's packets through a network into a `source_stats` | state machine, properties |
| `Subflow` | `subflow`, sender side | record and operators |
| `PathFeedback` | one subflow under sending, time and any receiver reports | state machine, properties |
| `PathTrust` | what a path promises about the trust in it | abstract specification, implemented by `PathFeedback` |
| `Shares` | `recalc_subflow_percentage`, `select_subflow` | operators |
| `Distribution` | a connected sender with N subflows | state machine, properties |
| `Recovery` | the closed loop: shares, packets, reports, shares | state machine, fairness, liveness |
| `Source` | `source` | record and operators |
| `Reporting` | a sender's packets and reports, the network, one receiver | state machine, properties |
| `Sender` | the rest of `sender`: totals, timestamps, timers | state machine, properties |
| `Session` | `session` and `interface` in the loop of `examples/server.cpp` | state machine, fairness, properties |
| `RtpTime` | `rtp_time`, NTP stamps, the words of `lsr` and `dlsr` | operators |
| `Packets` | what is written into datagrams and read from them | operators |
| `Exchange` | sender and receiver with the contents of their datagrams | state machine, properties |
| `ClientApp` | the threads of `examples/client.cpp` | state machine, properties, fairness |
| `MCStatsStream`, `MCPathFeedback`, `MCDistribution`, `MCRecovery`, `MCReporting`, `MCSender`, `MCExchange` | | sets given to constants for TLC |
| `SourceStatsLemmas` | | remainders, and what the operators of `SourceStats` return, proved |
| `StatsStreamProofs`, `PathFeedbackProofs`, `DistributionProofs`, `SenderProofs`, `ReportingProofs`, `SessionProofs`, `ClientAppProofs` | | theorems and proofs |

A class is a record and its methods are operators from the old record to the
new one, so that several state machines can share them. Operators named as
*faulty variants* are never used by the specifications: each is a plausible
error in the definition after it, put in its place to see that a property
notices.

### SourceStats and StatsStream

`SourceStats` keeps the fields of `source_stats` that numbering and loss depend
on; `lsr` and `dlsr` are in `Exchange`, jitter and arrival times are left out. `process_packet` with
a first packet is `FirstPacket` (including number 0, which starts in the second
cycle), any other is `LaterPacket`. `FractionLost` is a *set*, because an
interval in which nothing was expected and nothing arrived converts NaN to
`uint8_t`, which is undefined: the constant `UndefinedByte` says which bytes may
come out (any of two extremes, or just 0 as on common processors).

`StatsStream` puts a numbering sender (`subflow::sendto`: a number is used up
even when the socket refuses the packet), a network and the statistics together.
Packet *n* carries only `n % SeqMod`; history variables keep the unwrapped
numbers, and the properties compare. The network loses, duplicates (`keep`) and
reorders as far as `Near` allows: less than half a cycle ahead and at most half
a cycle behind the highest packet so far, as 16-bit numbers cannot tell more.
`AcrossWrap` says whether a late packet may be of an *earlier cycle* than the
highest one. The code gets those wrong (`pack_sequence_number >= maxseq16` takes
them for new), so exactness is stated without them, and `NeverBehind` says what
is left with them.

### Subflow and PathFeedback

`ProcessRR` is `process_rr_packet`. Bitrates are whole numbers in 1/256ths,
rounded down; `alpha` is a fraction given by two constants. In `PathFeedback`
reports carry *any* fraction and *any* highest number from the constants'
sets, in any order. That covers whatever the network or the peer does to them,
including a 32-bit difference that wraps. Two reports are never received in the
same unit of time (with microseconds they are not).

A report holds its highest number in a word; the history variables keep it
unwrapped, as the network knows it. `Told` is the rate that a report tells of the
interval since the one before, by unwrapped numbers and the time in between.
A report is `Misleading` if it or the one before it was overtaken by another: the
code keeps no order of reports, the difference of two numbers then wraps to
almost a whole word, and the path is credited with what it never carried. So is
the first difference from a receiver that nothing had reached, which reports 0 while
the numbers start at a random one. `peak` is the best that was told since the last
loss, and `RatesWithinPeak` compares the bitrates with it unless a misleading report
has been measured since (`misled`). So a phantom rate is not excluded; it is said what can
cause one, and that the next loss that is not misleading ends it. The words
wrap in the run, so a report remembered wrongly, for one, shows.

`PathTrust` says what all this is for, without packets, reports or rates: a loss
takes one level of trust away, and a level comes back only after a pause,
the longer the less trust there is. `PathFeedback` implements it: `level` is the
congestion indicator, `since` the clock less the time of its last change. A report
that finds nothing to measure, or a clean one before the pause is over, is a stutter;
so would be a loss that is ignored. The refinement says how trust may change, not
that it must; that a loss counts is in the definitions, and that trust returns in `Recovery`.

### Shares and Distribution

A share is a fraction `<<n, d>>` with `d >= 0`: division by zero gives an
infinite value or NaN with the comparisons of IEEE doubles. Sums of doubles may
be off by rounding; the fractions are exact, so `SharesAddUp` is a statement about the
formulas, not about the last bit. `Ratio` brings a fraction to its lowest terms, so that equal
shares are equal values. `RunningSum` and `RunningShare` are the loops that add up, in the code's order, with every
intermediate sum. The draw has `Grain` steps (100 in the code).
`Recalculated` follows the code's control flow including the missing `else`.
In `Distribution` a subflow keeps only what shares depend on: `SendData` sets
`packet_count_tt` to 1 rather than counting, a report shows any bitrate of
`Bitrates`, and whether the indicator's pause is over is chosen (`aged`) rather
than timed; so it has more behaviours than the code, and what holds in it holds
in the code. `OnRR` is the callback of `session::poll`, `Poll` the rest of
`sender::poll`; several `OnRR` in a row are a compound packet. The bitrate of
the stream is an input of `Poll`: any that the constants allow, among them zero, which an
idle second measures.

### Recovery

`Distribution` lets any report come at any time. `Recovery` closes the loop: only a
path that some draw selects is sent packets, only a path with packets shows
anything in a report, and **the rate it shows follows its share**. `draws` counts the
draws that select each path; a path carries `Least` for every one of them, so all
of them carry the bitrate of the stream. A clean report shows all that was carried
(or nothing, while everything is still on its way); a lossy one shows it too, or
next to nothing. Losses are shown by the paths that are still `bad`: any set of paths to begin
with, as each may heal at any time. Reports are compound and come from a receiver whose paths keep
order, so that a loss shows only together with a rate (a later packet has
arrived). Times are relative to the present one, and what nobody reads of a
fully trusted path is not kept (`Forgotten`), so that the states are finite without
bounding the clock.

**A path can starve.** Every loss of a congested path halves its congested rate's part of the
stream, the next rate follows the smaller share, and so on. With 100 steps to a draw
about seven lossy reports take a share of one half below 1/100. Then no draw may meet the
path, nothing is sent on it, no report measures it, and its indicator stays at
CIMAX for ever, although it lost its last packet long ago. So `TrustReturns`
holds only for paths that are drawn over and over, and `SharesSettle` only if no path
that is not fully trusted is left without packets for good. These conditions are in the
properties (`Probed`, `Watched`); without them TLC finds either one violated within
seconds, with draws of 5 and 0. The front path needs no condition: a draw of zero
meets it. With the conditions the properties say that starving is the only way
to stay distrusted: neither the pauses, nor other paths' losses, nor what the shares become keep a
path back that is drawn.

What holds without any closed loop is `RatedPathsKeepShares` of `Distribution`: once all
are measured, a path that has *ever shown a rate* has a share above zero, and is
drawn if it is the front one, or if its share is at least a step of the draw and the shares are no more than
the whole. The other exception is also what the code does: a path whose first report
comes before its first packets have arrived is measured as clean with a rate of
zero, gets no share, and is never sent anything again.

### Source and Reporting

`Source` puts the two statistics of a packet side by side. `Found` is
`find_subflow`; a subflow is made with the address of whatever mentions it first.
`FoundAll` looks up the subflows of all the reports in a compound packet, one after the other.
`GivenNumber` is the number an application reads from the packet, which the
statistics write one after the other. In `Reporting` a path keeps the order of
its packets and loses any of them; between paths there is no order. Sender
reports take any path, any time. `OnRTP` and `OnSR` are the callbacks of
`session::poll`, `Poll` the rest of `receiver::poll`. A packet is `Near` the last one of its path:
losses leave gaps below half a cycle, as 16-bit numbers cannot tell more. `Restart` stands for a new
receiver process. Endpoints are a host and a port counted from the one its
interface is opened on. Both properties about addresses and progress have an
exception, which is what the code does and is written into them: a source first
heard of through a sender report is answered on a port nobody listens on, and a subflow known
only from a sender report is reported with the highest number 0. A late packet of
an earlier cycle does not occur on a path that keeps order, but it
does in the stream, whose statistics are exact only as far as `StatsStream` shows;
`PathsApart` says that the subflows' are not affected.

### Sender

`Sender` has `connect`, `send_data` and `poll` without the draw and the shares,
with a clock. `snd` holds the members of the class other than the subflows, which are the
records of `Subflow`. A bitrate is a pair of octets and ticks instead of a double.
Random first values that matter to no property are zero. A timestamp may go round its
32 bits any number of times, so `StampsFollowClock` counts the laps; that they are whole is
what makes the rest of the difference say something. After a pause of 2^32 units or more (days) the
conversion of the double to `uint32_t` is undefined; it is modelled as compilers for x86-64 do it,
dropping the upper bits, and a build that saturates is not modelled.

### Session

A server with its interfaces, from the addresses on the command line (each may
fail to open, which `server.cpp` ignores) to SIGINT. One action per step between
which datagrams can come in: a socket read, a socket found empty, an interrupted
or failing `poll(2)`, a packet handed to its handler, a packet fetched. An empty
datagram is invisible to `FIONREAD` but not to `poll(2)`, is read, and is not queued.
When polling a socket fails, `session::poll` returns at once and what is queued
stays queued until a later poll. The signal handler only sets a flag. `Way` is everything
between a socket and the application, or the handler of its reports, in one sequence;
`EachOnceInOrder` says that all that has come in is on it, once and in order.

### RtpTime, Packets and Exchange

An RTCP compound is a sequence of words. A word is a triple of fields
whatever it means, so a reader that has lost its place by one word reads some
other number, as the code would. The sender and the receiver write (`SenderReport`,
`ReceiverReport`, `Block`, `Mprtp`), the session walks (`HandOver`,
`HandOverBlocks`); that the two agree is `ReportsComeThrough`. A block of length zero, which
this library does not write, is read for ever by the code and ends the packet in the model. RTP packets are records
of their size and the fields of the fixed header, with the words behind it, which the parser reads at
the position it computes; those of other
implementations have every combination of contributing sources, extension, MPRTP extension
and padding, and one contributing source looks like the MPRTP extension. `PayloadComesThrough` compares the
payload, the subflow and the number on the subflow that are read with those that were put in.

`Exchange` puts the datagrams on a net. One packet is under way at a time; a
report, once sent, stays and may be delivered at any time, many times or never.
The two hosts' clocks differ, the words of seconds wrap during the run, and the
receiver waits as long as it likes. `trip` is a history variable: no code of the library
computes the round trip, but `lsr` and `dlsr` are sent for nothing else.

### ClientApp

One action per step of each thread between points where the other can act.
SIGINT may be handled on the main thread, which is suspended meanwhile, or, as
POSIX allows, on the poll thread. `join` of a thread by itself, or of one that
does not exist, throws and ends the process ("aborted"); joining a thread that
main is already joining is undefined and may wait or throw.

## Runs

| run | instance | shows |
|---|---|---|
| `stats_ordered` | `SeqMod` 8, `WordMod` 16, packet numbers below 12, 2 in flight, 5 received; `AcrossWrap` FALSE | `TypeOK`, `Tracking` (the heart of the inductive invariant), `DistancesPreserved`, `IntervalIsExact`, `NoPhantomLoss` |
| `stats_reordered` | `WordMod` 256, `AcrossWrap` TRUE, NaN converts to anything | `NeverBehind`, `FractionBelowOne` |
| `path_feedback` | words of 4 values, highest numbers 0, 3, 4 and 6 in any order, CIMAX 2, TO 1, alpha 3/4, clock to 7, clean or half lost | `TypeOK`, `OneRateUnderLoss`, `RatesWithinPeak`; implements `PathTrust` (`ImplementsTrust`) |
| `distribution` | 3 subflows, bitrates 0 and 4, alpha 1/2, SB 0, 1 or 6, CIMAX 2 | `TypeOK`, `SharesAddUp`, `LossNeverPays`, `DrawsFollowShares`, `AllDrawnUntilReady`, `RatedPathsKeepShares` |
| `recovery` | 2 subflows, rates that follow the draws (2 for each), SB 0 or 10 (all of them), `Grain` 4, alpha 3/4, CIMAX 2, TO 1 | liveness `TrustReturns`, `SharesSettle` |
| `reporting` | 2 paths, `SeqMod` 8, streams begin at 0 or 6, 4 packets, 2 sender reports, 1 restart | `TypeOK`, `PathsApart`, `ProgressIsReal`, `AnswersReachSender`, `NumbersKept` |
| `sender` | 2 subflows, words of 4 values, 5 packets, 8 ticks, 2 in a second, a report every 2 seconds | `TypeOK`, `TotalsAgree`, `StampsFollowClock`, `ReportsStartWithPackets`, `ReportsKeepTime` |
| `session` | 2 interfaces, 2 datagrams of three kinds | `EachOnceInOrder`, `DataBeforeReports`; liveness `AllHandled` |
| `exchange` | 2 subflows, 1 packet sent or one of 43 foreign ones, 2 sender reports, 1 answer, 4 ticks of a tenth of a second | `PayloadComesThrough`, `ReportsComeThrough`, `RoundTripMeasured` |
| `client_threads` | 3 lines, 2 interrupts | `OneCallAtATime`, `ExitAfterPolling`, `OnlyInterruptEnds`, `LinesAreSent`, `IdleInterruptExits` |
| `distribution_stepwise` | as `distribution`, 2 subflows | **violated**: `StepwiseOnlyUnderCongestion` |
| `client_interrupt` | 1 line, 1 interrupt | **violated**: `InterruptExits` |

Why the bounds are enough. A cycle of 8 numbers has both sides of half a cycle
and a tie; numbers below 12 from a start between 0 and 6 cross one wrap of the number, and with
`WordMod` 16 the extended number wraps as well when the stream starts with number 0, which
is counted from the second cycle. Five received packets give
a first one, a wrap, a late one and a duplicate in one interval or across two.
`path_feedback` has time for the way up to CIMAX and the whole way down again,
pauses at both levels included, and highest numbers on both sides of a wrap of the word, with
steps of one and more, forwards and backwards. With CIMAX 2 a path passes through clean, lossy and congested, and three
paths are all of them together, with varied rates (alpha 1/2 gives 0, 2 and
3). `Grain` 4 hits the cumulative shares 1/2
and 1 exactly as well as in between.

In `reporting` four packets wrap the numbers of the stream and of a subflow and
leave gaps below half a cycle; two reports meet in one poll, or precede all packets,
before and after the restart. In `sender` five packets make the counters wrap
to zero and go on, two reports fall due after one another, and 3 ticks to a unit
make every rounding error there is.

In `recovery` there are no bounds but the small constants: the states are finite by themselves,
and the liveness is of endless behaviours. Alpha 3/4 makes smoothing change the rates
(the code's .99 would need numbers in the hundreds). `Grain` 4 is coarse on purpose: a share of a
congested path falls below a step after one heavy or a few lighter losses, where the code takes
about seven, so both a path that starves and one that comes back through shares in
between occur; and with SB 0 the limits are infinite, so that lossy paths get what their tested rates are worth.
In `session` two datagrams are both on one socket, on the two of one
interface or on two interfaces, before, between and after the failed polls. As
arrivals are bounded, `AllHandled` says nothing of a socket that is refilled as fast as it is
read, which would keep `interface::poll` for ever. In `exchange` one answer
suffices for a round trip from a fresh, a late and a superseded sender report, and the
clock passes the wrap of the inner half of the seconds and of the whole word.

Deadlock is checked in the statistics, distribution and recovery runs. The others
stop at the bounds of their clocks or packets, and the client is meant to stop.

Fairness is assumed where something is to happen in the end.

* `ClientApp`: both threads and the handler keep
  running (weak fairness), and a thread that waits for the mutex gets it in the
  end (strong fairness), which the poll thread's millisecond of sleep in
  every round, without the mutex, justifies. Nothing is assumed about typing or SIGINT.
* `Recovery`: time passes and reports keep coming (weak fairness; reports are
  sent every five seconds as long as packets are), and a subflow that can be drawn over
  and over is drawn in the end (strong fairness), as draws are random.
  Nothing is assumed about the network: `TrustReturns` and `SharesSettle` are about
  networks that stop losing packets.
* `Session`: the server's loop keeps running, which waits for nothing but
  a millisecond in each round (weak fairness), and polling a socket, which may fail
  for want of memory, does not fail every time (strong fairness for each socket).

### Findings

* **The missing else** (`src/mprtp_sender.cpp:311`). The comment at 324 reserves
  the stepwise approach for *some paths congested while others are not*; the
  branch for no congested path computes its own division at 300-310. For want of an
  `else` the stepwise branch then runs as well and overwrites it. In the run's
  counterexample one path is clean and one lossy, none congested; the lossy one's
  tested bitrate is worth the whole but its share becomes 1/4 and the clean
  path's stays 0, so that three quarters of the packets fall to the front subflow for want
  of a share. When no path is lossy the two divisions agree.
* **CTRL+C may hang the client** (`examples/client.cpp:19`). The handler joins the poll
  thread from within the interrupted one. If that is the main thread inside
  `send_data`, the mutex stays locked, the poll thread never ends, and neither
  does the process, although line 100 says "Press CTRL+C to exit".
  `IdleInterruptExits` shows that this is the only way: a SIGINT that finds the
  mutex elsewhere always ends the process.

## Proofs

All theorems hold for every value of the constants under the named assumptions
of the modules; constants that bound a run are bounds of nothing in the arguments, but for
the one that `NeverFallsBehind` names.

* **`SourceStatsLemmas`.** Facts about remainders; what a packet does to a
  `source_stats` when it is the first, in order, late within its cycle, or late across a wrap.
  `NumberInduction` is induction over the naturals for a *set*: the library's form takes an
  operator as a parameter, which the provers cannot instantiate, while a property can be put
  into a set and the set into the least-number principle.
* **`StatsStreamProofs`.** The inductive invariant is `TypeOK /\ Counting /\
  Tracking`. `Tracking` says what every 32-bit field means in unwrapped numbers,
  counted from `Origin`, the start of the cycle in which the first packet lies
  (one cycle earlier if its number was 0); without it nothing links a word to a
  packet. `Counting` bounds the different packets of an interval by the counter.
  The heart is `LaterPacketExact`, one packet's effect. From it follow `DistancesAlwaysPreserved`,
  `IntervalAlwaysExact` and `LossIsReal`, all assuming `~AcrossWrap`.
  `TypeCorrect` and `FractionAlwaysFits` hold with any network; the latter from
  an invariant of its own (`Moved`: the highest number has moved only if a packet was counted).
  `NeverFallsBehind` is for any network too. Its invariant `Forward` says that the extended number
  is at least the true distance and starts at most one cycle per packet received, so it assumes
  that a word has room for that many cycles (with the code's widths, 65535 packets, each of
  which would have to cross a wrap): past it the extended number may wrap, and the property is false.
* **`PathFeedbackProofs`.** `TypeCorrect` needs the cap at CIMAX and the guard of the
  decay. `DecayAlwaysTakesItsTime` adds to the property that the last change is
  not in the future and that a raise resets it, and rests on `DecayArithmetic`,
  one level's worth of pause. From the same invariant
  `SubflowImplementsTrust`: the initial states of `PathFeedback` are initial
  states of `PathTrust`, and every step is one of its steps or a stutter. `RatesCorrect` proves three properties together:
  that rates agree under loss rests on both being initialised, and the bound on CB on their agreeing.
  For the bound on TB the words must be tied to the unwrapped numbers: the report remembered is the last one
  (`RememberedEffect`), a difference of two words is that of the numbers if these lie less than a word
  apart (`WordDistance`), so that what the code measures is what the report has told (`ToldIsMeasured`).
  `RatesNeverExceedPeak` is the part of it that a run checks.
* **`DistributionProofs`.** Any number of subflows, any whole bitrates, any steps of the draw.
  *Sums.* `Recursion` gives the running sums their existence, by induction over a set;
  `CommonDenominator` brings all the shares of a sender to one denominator, and what is said of sums of
  fractions becomes a statement about sums of naturals, compared and combined member by
  member (`SumsCompare`, `SumsCombine`); one NaN makes the sum NaN (`NaNSpoils`). *One
  computation.* `StepwiseFair`: each limit is at most what the path's tested rate is worth,
  so what the limits leave is at least what the clean paths' rates are worth, and they divide it by those
  rates. `RecalculatedFair` adds the other branch, for which the rates must be equal wherever the indicator
  is above zero (`Consistent`): the shares by congested rates are then those by tested rates.
  *Draws.* `DrawsFollow`, by the interval that each share takes of the draws. *The invariant.*
  `DistributionInv`: types, `Consistent`, shares of one half as long as not all are ready, and after a
  poll the two facts about the shares it computed. From it `TypeCorrect`, `SharesDivideEverything`,
  `LossIsNeverRewarded`, `DrawsAreFair`; `ThreePathsAreProbed` assumes up to
  three subflows and more than one step of the draw, with 100 in the code.
  `FourPathsNeverStart` is the other side of it: with more than three subflows
  the fourth is never drawn, so never measured, and `recalc_subflow_percentage` returns early for ever.
  `RatedPathsStayServed`: a limit is never zero for a path that has shown a rate, nor is its part
  of the rest, even when the stream's bitrate is zero; the front path then has a draw whatever the
  other shares are (`FrontDraw`).
* **`SenderProofs`.** `ReportsAlwaysStartWithPackets` needs `CountedWhenTaken` (packets are
  counted only when one was taken) and that the clock starts above zero, which is what the code's
  test for a timer that is not set relies on; `ReportsAlwaysKeepTime` follows from the types. For `StampsAlwaysFollowClock`
  a step is cut into the units it adds (`Stampings`: within half a unit of the time passed) and what the
  32 bits make of them (`Advanced`: laps are carried over), so that one error is added
  per timestamp. `TotalsAlwaysAgree` compares a counter that wraps with a sum over any number of
  subflows. The sum is a fold, a recursive function over the subsets of a finite set, whose
  existence the provers do not grant: it is proved by `NumberInduction` over cardinalities, then that one
  member's growth is the sum's, in any order of summation.
* **`ReportingProofs`.** `Known`: the source has one record per subflow, each with the address
  of the interface that made it, the front one with that of whatever the receiver heard first.
  `Lined`: the packets on a path are in the order of their numbers, above the highest
  received and below the next to send. `Tracked`: the fields of a path's statistics are those its own first
  and highest packet give, and what was told is what was true then. `Lined` is needed because
  only a packet above the highest is placed exactly without more conditions; `PathsAlwaysApart` and
  `ProgressAlwaysReal` follow. `NumbersAlwaysKept` rests on `WholeCycles` of the *stream*, the statistics that
  are not exact but still count whole cycles. `AnswersAlwaysReachSender` and `TypeCorrect` follow from `Known`.
* **`SessionProofs`.** `Placed`: what a queue holds came in where the queue says. `InLine`:
  for each socket, all that came in is in the places between the handlers and the kernel, sorted in
  each and the one place ahead of the next (`Sorted`, `Before`), so that a step which moves a datagram from
  the front of a place to the end of the next keeps it, and the sequence `Way` is in order.
  `Rounds`: what a poll has done so far. The sockets it has passed hold nothing that was there when it began, and no packet
  is queued behind a report of the same poll. `EachAlwaysOnceInOrder` follows from the first two,
  `DataAlwaysBeforeReports` from the third.
* **`ClientAppProofs`.** `ThreadInv`: `TypeOK`, the two exit properties and
  `LockDiscipline` (whoever is in the library holds the mutex, and the poll thread
  ends only when told), one step per action.

Properties that are proved and that no run states: `DecayTakesItsTime`, which
`ImplementsTrust` says in another form, `RatesSetBeforeUse`, inside `RatesCorrect`,
and `NeverStarts` of `DistributionProofs`.

Only model-checked:

* the liveness of `ClientApp`, `Recovery` and `Session`, as TLAPS proves neither liveness under fairness
  nor facts about ENABLED;
* the three properties of `Exchange`, whose readers go through sequences of words with recursive functions,
  and the walk of `source::poll` over its subflows with `SelectSeq`, whose definition the provers do not expand.

## Not modelled, and the plan

Not modelled, with the reason:

* Jitter and the arrival times it is computed from: nothing in the repository reads
  them, and they are doubles.
* `suspend_interface`: it sets a flag that no code reads. The last sender report of a *subflow* and
  `m_last_receiver_report_time` are likewise written and never read.
* The descriptors of an interface. `open` closes those of one that cannot be opened without
  forgetting them, and the destructor closes them once more; between the two
  nothing in this single thread opens a descriptor.
* `rtp_time::wait`, `get_microseconds` and the conversion from NTP: nothing calls them.
  The rounding of doubles in the others.
* The report blocks inside sender reports and the CSRC values, which the packet classes offer
  and nobody asks for; several report blocks in one RR, of which the session hands over
  the first as often as there are blocks, while this library writes one.
* Header bits that nobody reads, socket calls, argument parsing, printing. A restart of the sender.

What is left, in this order:

1. Proofs: the round trip of `Exchange`, which is arithmetic of words and needs no walk.
2. The composition of `Recovery` with `Reporting`: a loss is acted on at most once
   per report, a restarted receiver or sender.
3. Jitter against a reference definition.
