---------------------------- MODULE PeerTimeouts ----------------------------
(***************************************************************************)
(* The clock of a host and the timers of one connected peer: the wrapping  *)
(* times of enet_time_get, the round-trip time estimated from              *)
(* acknowledgements that carry 16 bits of a time, the retransmission of    *)
(* commands, the pings of a silent connection and the timeout that ends    *)
(* it.  The other side answers, late or repeatedly, or does not.           *)
(*                                                                         *)
(* The model's clock does not wrap; the code's handlers are given only     *)
(* serviceTime, the clock in one word.                                     *)
(***************************************************************************)
EXTENDS Integers, Sequences, Functions, FiniteSetsExt, SubSequences

CONSTANTS
    Word,            \* 2^32
    Overflow,        \* ENET_TIME_OVERFLOW (86,400,000)
    SentTimeRange,   \* 2^16, the range of a sent time on the wire
    AttemptCycle,    \* 32, bits of the word that counts attempts
    TimeoutLimit, TimeoutMinimum, TimeoutMaximum, PingInterval,
    DefaultRoundTrip,                   \* ENET_PEER_DEFAULT_ROUND_TRIP_TIME
    RoundTripGain, VarianceGain, SlowGain,  \* 8, 4 and 32
    Steps, MaxStep,  \* times from one service to the next, and a bound of them
    WireLife,        \* an acknowledgement comes within this time or never
    MaxCommands,     \* bound: commands queued, pings included
    StartAt, MaxTime \* bounds: the clock runs from StartAt to MaxTime

ASSUME TimeAssumption ==
    /\ {Word, Overflow, SentTimeRange, AttemptCycle, TimeoutLimit, DefaultRoundTrip,
        RoundTripGain, VarianceGain, SlowGain} \subseteq Nat \ {0}
    /\ {TimeoutMinimum, TimeoutMaximum, PingInterval, WireLife, MaxCommands,
        StartAt, MaxTime} \subseteq Nat
    /\ MaxStep \in Nat /\ Steps \subseteq 0 .. MaxStep /\ StartAt <= MaxTime
    /\ SentTimeRange % 2 = 0 /\ Word % SentTimeRange = 0
    /\ SentTimeRange <= Overflow /\ 2 * Overflow <= Word
    /\ WireLife < SentTimeRange
    /\ TimeoutMinimum <= Overflow
    /\ DefaultRoundTrip + 5 * WireLife + MaxStep + TimeoutMaximum < Overflow

VARIABLES
    clock,
    connected,
    queued,                 \* outgoingSendReliableCommands
    sentReliableCommands,   \* in flight
    nextTimeout, earliestTimeout,
    roundTripTime, roundTripTimeVariance, lastReceiveTime,
    transmissions,          \* history: what was transmitted, and when
    shortest, longest,      \* history: true round trips of the acknowledgements taken
    heard,                  \* history: when the last acknowledgement was taken
    numbered                \* commands numbered so far

estimate == <<roundTripTime, roundTripTimeVariance, lastReceiveTime>>
timers == <<nextTimeout, earliestTimeout>>
history == <<transmissions, shortest, longest, heard>>
vars == <<clock, connected, queued, sentReliableCommands, timers, estimate, history, numbered>>

-----------------------------------------------------------------------------
(* Times *)

Times == 0 .. Word - 1
Plus(a, b) == (a + b) % Word
Minus(a, b) == (a - b) % Word

serviceTime == clock % Word

\* ENET_TIME_LESS
TimeLess(a, b) == Minus(a, b) >= Overflow

\* As TimeDifference below, but the clock is taken not to wrap.
TimeDifference_NoWrap(a, b) == IF a < b THEN b - a ELSE a - b

\* ENET_TIME_DIFFERENCE
TimeDifference(a, b) == IF Minus(a, b) >= Overflow THEN Minus(b, a) ELSE Minus(a, b)

\* The time of which an acknowledgement carries the low half.
SentTime(received) ==
    LET high(t) == t % SentTimeRange >= SentTimeRange \div 2
        sameRange == serviceTime - (serviceTime % SentTimeRange) + received
    IN  IF high(received) /\ ~ high(serviceTime)
        THEN Minus(sameRange, SentTimeRange) ELSE sameRange

-----------------------------------------------------------------------------
(* Commands: their number, the time and number of attempts of their last   *)
(* transmission, and the time of the first one (history)                   *)

Command(n) == [number |-> n, sentTime |-> 0, roundTripTimeout |-> 0, attempts |-> 0,
               first |-> 0]

Patience == Plus(roundTripTime, 4 * roundTripTimeVariance)

Deadline(c) == Plus(c.sentTime, c.roundTripTimeout)

\* As NextTimeout below, but the time is left as it is.
NextTimeout_Kept(commands) == nextTimeout

\* nextTimeout belongs to the front of the commands in flight.
NextTimeout(commands) ==
    IF commands = <<>> THEN nextTimeout ELSE Deadline(Head(commands))

\* enet_peer_queue_outgoing_command
Queue ==
    /\ connected
    /\ numbered < MaxCommands
    /\ numbered' = numbered + 1
    /\ queued' = Append(queued, Command(numbered'))
    /\ UNCHANGED <<clock, connected, sentReliableCommands, timers, estimate, history>>

-----------------------------------------------------------------------------
(* Acknowledgements *)

\* As RoundTrip below, but two times of the same millisecond are no time apart.
RoundTrip_MayBeZero(sent) == TimeDifference(serviceTime, sent)

RoundTrip(sent) == Max({TimeDifference(serviceTime, sent), 1})

\* enet_protocol_handle_acknowledge: the estimate after a round trip.
Estimated(sample) ==
    LET longer == sample >= roundTripTime
        diff == IF longer THEN sample - roundTripTime ELSE roundTripTime - sample
        gain == IF longer \/ diff <= roundTripTimeVariance THEN VarianceGain ELSE SlowGain
    IN  IF lastReceiveTime > 0
        THEN /\ roundTripTimeVariance' = roundTripTimeVariance
                    - (roundTripTimeVariance \div gain) + (diff \div gain)
             /\ roundTripTime' = IF longer THEN roundTripTime + (diff \div RoundTripGain)
                                 ELSE roundTripTime - (diff \div RoundTripGain)
        ELSE roundTripTime' = sample /\ roundTripTimeVariance' = sample \div 2

\* As ClearEarliest below, but the time of the timeout survives.
ClearEarliest_Never == earliestTimeout' = earliestTimeout

ClearEarliest == earliestTimeout' = 0

\* enet_protocol_remove_sent_reliable_command: a command that timed out is found
\* among the queued ones.
Forget(number) ==
    LET named(commands) ==
            {i \in DOMAIN commands : commands[i].number = number /\ commands[i].attempts > 0}
        found == named(sentReliableCommands) # {} \/ named(queued) # {}
    IN  /\ sentReliableCommands' = Others(sentReliableCommands, named(sentReliableCommands))
        /\ queued' = Others(queued, named(queued))
        /\ nextTimeout' = IF found THEN NextTimeout(sentReliableCommands') ELSE nextTimeout

\* enet_protocol_handle_acknowledge, for any transmission that was not too long
\* ago, of a command that may be acknowledged already.
Acknowledge(t) ==
    /\ connected
    /\ clock - t.at <= WireLife
    /\ LET sent == SentTime(t.at % SentTimeRange)
       IN  /\ ~ TimeLess(serviceTime, sent)
           /\ Estimated(RoundTrip(sent))
    /\ lastReceiveTime' = Max({serviceTime, 1})
    /\ ClearEarliest
    /\ Forget(t.number)
    /\ LET trip == Max({clock - t.at, 1})
           first == longest = 0
       IN  /\ shortest' = IF first \/ trip < shortest THEN trip ELSE shortest
           /\ longest' = Max({trip, longest})
    /\ heard' = clock
    /\ UNCHANGED <<clock, connected, transmissions, numbered>>

-----------------------------------------------------------------------------
(* Services: timeouts, retransmissions, pings *)

Overdue(c, now) == TimeDifference(now, c.sentTime) >= c.roundTripTimeout

\* As Earliest below, but every command that is overdue starts the count anew.
Earliest_Newest(now) ==
    LET earliest[i \in 0 .. Len(sentReliableCommands)] ==
            IF i = 0 THEN earliestTimeout
            ELSE IF Overdue(sentReliableCommands[i], now)
            THEN sentReliableCommands[i].sentTime ELSE earliest[i - 1]
    IN  earliest

\* enet_protocol_check_timeouts: earliestTimeout once it has come to each command.
Earliest(now) ==
    LET sentTime(i) == sentReliableCommands[i].sentTime
        earliest[i \in 0 .. Len(sentReliableCommands)] ==
            IF i = 0 THEN earliestTimeout
            ELSE IF /\ Overdue(sentReliableCommands[i], now)
                    /\ earliest[i - 1] = 0 \/ TimeLess(sentTime(i), earliest[i - 1])
            THEN sentTime(i) ELSE earliest[i - 1]
    IN  earliest

\* Whether the peer is given up at an overdue command.
GivenUp(c, earliest, now) ==
    /\ earliest # 0
    /\ \/ TimeDifference(now, earliest) >= TimeoutMaximum
       \/ /\ 2 ^ ((c.attempts - 1) % AttemptCycle) >= TimeoutLimit
          /\ TimeDifference(now, earliest) >= TimeoutMinimum

\* The commands in flight that are overdue.
Due(now) == {i \in DOMAIN sentReliableCommands : Overdue(sentReliableCommands[i], now)}

TimedOut(now) ==
    \E i \in Due(now) : GivenUp(sentReliableCommands[i], Earliest(now)[i], now)

\* What the check leaves in flight; nextTimeout moves when the front is removed.
InFlight(now) == Others(sentReliableCommands, Due(now))

\* What is queued again.
Retried(now) ==
    LET overdue == Chosen(sentReliableCommands, Due(now))
    IN  [i \in DOMAIN overdue |-> [overdue[i] EXCEPT !.roundTripTimeout = Patience]]

\* enet_protocol_check_outgoing_commands for one command.
Transmit(c, now, at) ==
    [c EXCEPT !.sentTime = now, !.attempts = @ + 1,
              !.roundTripTimeout = IF @ = 0 THEN Patience ELSE @,
              !.first = IF c.attempts = 0 THEN at ELSE @]

\* enet_protocol_notify_disconnect_timeout, when the peer is reset.
GiveUp ==
    /\ connected' = FALSE
    /\ queued' = <<>> /\ sentReliableCommands' = <<>>
    /\ UNCHANGED <<timers, estimate, transmissions, numbered>>

\* Some of the waiting commands fit the transit limit; one always does.
SendSome(inFlight, waiting, now, at, n, deadline) ==
    LET sent == [i \in 1 .. n |-> Transmit(waiting[i], now, at)]
    IN  /\ (inFlight = <<>> /\ waiting # <<>>) => n > 0
        /\ sentReliableCommands' = inFlight \o sent
        /\ queued' = SubSeq(waiting, n + 1, Len(waiting))
        /\ nextTimeout' = IF inFlight = <<>> /\ n > 0 THEN Deadline(Head(sent)) ELSE deadline
        /\ transmissions' = {t \in transmissions : at - t.at <= WireLife}
              \cup {[number |-> c.number, at |-> at] : c \in Range(sent)}

\* enet_host_service at a later time, as enet_protocol_send_outgoing_commands
\* handles the peer.  A connection with nothing to send or to wait for is pinged.
Service(step) ==
    LET at == clock + step
        now == at % Word
        check == sentReliableCommands # <<>> /\ ~ TimeLess(now, nextTimeout)
        inFlight == IF check THEN InFlight(now) ELSE sentReliableCommands
        waiting == IF check THEN Retried(now) \o queued ELSE queued
        frontLeft == check /\ Overdue(Head(sentReliableCommands), now)
        ping == /\ inFlight = <<>> /\ waiting = <<>> /\ numbered < MaxCommands
                /\ TimeDifference(now, lastReceiveTime) >= PingInterval
    IN  /\ connected
        /\ at <= MaxTime
        /\ clock' = at
        /\ UNCHANGED <<shortest, longest, heard>>
        /\ IF check /\ TimedOut(now)
           THEN GiveUp
           ELSE /\ earliestTimeout' = IF check THEN Earliest(now)[Len(sentReliableCommands)]
                                      ELSE earliestTimeout
                /\ numbered' = IF ping THEN numbered + 1 ELSE numbered
                /\ \E n \in 0 .. Len(waiting) + 1 :
                     LET all == IF ping THEN <<Command(numbered')>> ELSE waiting
                     IN  /\ n <= Len(all)
                         /\ SendSome(inFlight, all, now, at, n,
                                     IF frontLeft THEN NextTimeout(inFlight) ELSE nextTimeout)
                /\ UNCHANGED <<connected, estimate>>

-----------------------------------------------------------------------------

Init ==
    /\ clock = StartAt
    /\ connected = TRUE
    /\ queued = <<>> /\ sentReliableCommands = <<>>
    /\ nextTimeout = 0 /\ earliestTimeout = 0
    /\ roundTripTime = DefaultRoundTrip /\ roundTripTimeVariance = 0
    /\ lastReceiveTime = 0
    /\ transmissions = {} /\ shortest = 0 /\ longest = 0 /\ heard = StartAt
    /\ numbered = 0

Next ==
    \/ Queue
    \/ \E t \in transmissions : Acknowledge(t)
    \/ \E step \in Steps : Service(step)

Spec == Init /\ [][Next]_vars

-----------------------------------------------------------------------------
(* Properties *)

\* Times are words; a command in flight has been attempted and waits for its
\* acknowledgement some time: it is not overdue when it is sent.
Commands == [number: 1 .. MaxCommands, sentTime: Times, roundTripTimeout: Times,
             attempts: Nat, first: Nat]

TypeOK ==
    /\ clock \in StartAt .. MaxTime /\ heard \in StartAt .. MaxTime
    /\ connected \in BOOLEAN
    /\ queued \in Seq(Commands) /\ sentReliableCommands \in Seq(Commands)
    /\ {nextTimeout, earliestTimeout, roundTripTime, roundTripTimeVariance,
        lastReceiveTime} \subseteq Times
    /\ \A c \in Range(sentReliableCommands) : c.attempts > 0 /\ c.roundTripTimeout > 0

\* The check for timeouts is due exactly when the oldest command in flight is:
\* acknowledgements, timeouts and transmissions keep nextTimeout at its front.
NextTimeoutIsOldest ==
    sentReliableCommands # <<>> =>
        /\ nextTimeout = Deadline(Head(sentReliableCommands))
        /\ \A c \in Range(sentReliableCommands) :
               ~ TimeLess(c.sentTime, Head(sentReliableCommands).sentTime)

\* The estimate of the round-trip time lies among the round trips there were,
\* though only 16 bits of a time are on the wire and the clock wraps.
EstimateWithinSamples ==
    longest # 0 => roundTripTime \in shortest .. longest

\* A peer times out only when one of its commands was sent at least
\* TimeoutMinimum ago and is still not acknowledged (if that is not more than
\* TimeoutMaximum), at least TimeoutMaximum if none was attempted often enough.
TimeoutDeserved ==
    [][connected /\ ~ connected' =>
          \E c \in Range(sentReliableCommands \o queued) :
             /\ c.attempts > 0
             /\ clock' - c.first >=
                   IF \E d \in Range(sentReliableCommands) :
                          2 ^ ((d.attempts - 1) % AttemptCycle) >= TimeoutLimit
                   THEN Min({TimeoutMinimum, TimeoutMaximum}) ELSE TimeoutMaximum]_vars

\* No command waits longer for its acknowledgement: the default estimate, or a
\* round trip and four times what round trips have varied by.
LongestWait ==
    Max({DefaultRoundTrip, longest + 4 * Max({longest \div 2, longest - shortest})})

\* When nothing at all is acknowledged any more the peer times out: after
\* TimeoutMaximum and two retransmission timeouts, each of them noticed by the
\* next service.  The second is the price of a transmission at time 0, which
\* earliestTimeout cannot tell from none.
SilenceEnds ==
    \A c \in Range(sentReliableCommands) :
        clock - Max({c.first, heard}) < TimeoutMaximum + 2 * (LongestWait + MaxStep)
=============================================================================
