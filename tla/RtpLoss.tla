------------------------------ MODULE RtpLoss ------------------------------
(***************************************************************************)
(* The stateful features of NTRT (lib/lib_features.c): the evaluators of   *)
(* LOST_RTP_PACKETS_X and LOST_RTP_FRAMES_X and their SRC_ and DST_        *)
(* variants, which differ in the packets they look at only.  An evaluator  *)
(* compares the 16 bit sequence number of a packet with the one its        *)
(* container remembers; what it returns is added to uint32_t sums.         *)
(*                                                                         *)
(* The stream arrives in order, which README.md demands: a packet comes    *)
(* after some lost ones or twice.  Both features are evaluated for every   *)
(* packet; their containers see the same numbers, so one stands for both.  *)
(***************************************************************************)
EXTENDS Integers

CONSTANTS
    SeqSize,     \* 2^16: sequence numbers are u_short
    WordSize,    \* 2^32: a feature's sum is uint32_t
    MaxGap,      \* the longest burst of lost packets
    Timestamps   \* RTP timestamps; the packets of a frame have the same one

\* A burst of half the sequence space would be taken for a late packet.
SizesFit ==
    /\ SeqSize \in Nat \ {0} /\ SeqSize % 2 = 0
    /\ WordSize \in Nat /\ WordSize > SeqSize
    /\ MaxGap \in Nat /\ 2 * (MaxGap + 1) < SeqSize
    /\ 0 \in Timestamps

VARIABLES
    seq_num,              \* container: the sequence number of the last packet
    seq_num_initialized,  \* container: a packet was seen
    last_timestamp,       \* container: the timestamp of the last packet but the first
    packets,              \* the sum of LOST_RTP_PACKETS_X
    frames,               \* the sum of LOST_RTP_FRAMES_X
    arrived,              \* the stream: the sequence number of its last packet
    missing,              \* history: packets lost so far, as a word
    wraps                 \* history: times the sequence numbers started over, as a word

vars == <<seq_num, seq_num_initialized, last_timestamp, packets, frames, arrived, missing,
          wraps>>

SeqNums == 0 .. SeqSize - 1
Word == 0 .. WordSize - 1

\* Unsigned arithmetic.
Plus(a, b) == IF a + b < WordSize THEN a + b ELSE a + b - WordSize
Minus(a, b) == IF a >= b THEN a - b ELSE a - b + WordSize

\* Mutant of u_short_diff: a distance over the end of the numbers is negated.
u_short_absolute(start, end) == IF start <= end THEN end - start ELSE start - end

\* _u_short_diff: past the end of the numbers it complements the distance.
u_short_diff(start, end) == IF start <= end THEN end - start ELSE (SeqSize - 1) - (start - end)

\* _cmp_u_short(x, y) <= 0: the result is a u_short, so its -1 is positive, and
\* what is left of "not later" is the same number or one half the space away.
NotLater(x, y) == x = y \/ 2 * (x - y) = SeqSize \/ 2 * (y - x) = SeqSize

-----------------------------------------------------------------------------
Init ==
    /\ seq_num = 0
    /\ seq_num_initialized = FALSE
    /\ last_timestamp = 0
    /\ packets = 0
    /\ frames = 0
    /\ arrived \in SeqNums
    /\ missing = 0
    /\ wraps = 0

\* The first packet with the payload type of the feature.
First ==
    /\ ~ seq_num_initialized
    /\ seq_num' = arrived
    /\ seq_num_initialized' = TRUE
    /\ UNCHANGED <<last_timestamp, packets, frames, arrived, missing, wraps>>

\* Both evaluators, from the test of the number on.  `diff - 1' is an int that
\* becomes a uint32_t.
Evaluate(rtph_seq_num, ts) ==
    IF NotLater(rtph_seq_num, seq_num)
    THEN UNCHANGED <<seq_num, last_timestamp, packets, frames>>
    ELSE LET diff == u_short_diff(seq_num, rtph_seq_num)
         IN  /\ seq_num' = rtph_seq_num
             /\ packets' = Plus(packets, Minus(diff, 1))
             /\ frames' = IF 1 < diff /\ ts # last_timestamp THEN Plus(frames, 1) ELSE frames
             /\ last_timestamp' = ts

\* The next packet that is not lost, after gap lost ones.
Later(gap, ts) ==
    /\ seq_num_initialized
    /\ LET next == arrived + gap + 1
           wrapped == next >= SeqSize
       IN  /\ arrived' = IF wrapped THEN next - SeqSize ELSE next
           /\ wraps' = IF wrapped THEN Plus(wraps, 1) ELSE wraps
    /\ missing' = Plus(missing, gap)
    /\ Evaluate(arrived', ts)
    /\ UNCHANGED seq_num_initialized

\* The last packet once more.
Duplicate(ts) ==
    /\ seq_num_initialized
    /\ Evaluate(arrived, ts)
    /\ UNCHANGED <<seq_num_initialized, arrived, missing, wraps>>

Next ==
    \/ First
    \/ \E ts \in Timestamps : Duplicate(ts) \/ \E gap \in 0 .. MaxGap : Later(gap, ts)

Spec == Init /\ [][Next]_vars

-----------------------------------------------------------------------------
\* Every field keeps its type.
TypeOK ==
    /\ seq_num \in SeqNums /\ arrived \in SeqNums
    /\ seq_num_initialized \in BOOLEAN
    /\ last_timestamp \in Timestamps
    /\ packets \in Word /\ frames \in Word
    /\ missing \in Word /\ wraps \in Word

\* What the feature has added up is the number of lost packets, less one for
\* every time the sequence numbers started over: nothing is counted twice, and
\* the numbers are exact between two wraps (_lost_rtp_packets_evaluator).
LossIsExactButForWraps == packets = Minus(missing, wraps)

\* A frame is reported as lost only for a packet that came after a gap, and for
\* one gap at most one: a wrap or a duplicate never makes one up.
FrameNeedsAGap ==
    [][frames' # frames => frames' = Plus(frames, 1) /\ arrived' # arrived
                           /\ arrived' # (arrived + 1) % SeqSize]_vars
=============================================================================
