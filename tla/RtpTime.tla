------------------------------ MODULE RtpTime ------------------------------
(* rtp_time and the words it is written to in reports.  A time is a number *)
(* of ticks; rtp_time holds seconds in a double, whose rounding is left    *)
(* out.  NTP stamps have one word of seconds and one of fractions; the     *)
(* round trip is measured with the inner halves of the two, that is in     *)
(* seconds / Half and modulo Half seconds.                                 *)
EXTENDS Integers

CONSTANTS
  Ticks,      \* ticks in a second
  Micros,     \* microseconds in a second: 10^6
  Half,       \* values of half a word: 2^16
  NtpOffset   \* RTP_NTPTIMEOFFSET

NtpWord == Half * Half

ASSUME TimeAssumption ==
  /\ Ticks \in Nat \ {0} /\ Micros \in Nat \ {0}
  /\ Half \in Nat \ {0} /\ NtpOffset \in 0..(NtpWord - 1)

(* get_ntp_time: truncated to microseconds, and again to fractions.  The   *)
(* word of seconds wraps around, in the year 2036.                         *)
GetNtpTime(t) ==
  LET sec == t \div Ticks
      microsec == ((t % Ticks) * Micros) \div Ticks
  IN  [msw |-> (sec + NtpOffset) % NtpWord,
       lsw |-> (microsec * NtpWord) \div Micros]

(* lsr of fill_receiver_report *)
Inner(ntp) == (ntp.msw % Half) * Half + ntp.lsw \div Half

(* dlsr of fill_receiver_report: (uint32_t) (65536.0 * seconds) *)
InnerDelay(t) == (t * Half) \div Ticks
=============================================================================
