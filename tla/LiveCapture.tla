---------------------------- MODULE LiveCapture ----------------------------
(***************************************************************************)
(* Live capture (src/capture/live_capture.py): a daemon thread runs        *)
(* scapy's sniff() and puts every packet into a bounded queue without      *)
(* waiting; the generator capture_live() takes them out again for the main *)
(* thread, which pauses it at each yield while the pipeline works.         *)
(*                                                                         *)
(* Packets are numbered in the order sniff() hands them over.  The thread  *)
(* announces its end with a poison pill (code: None).  "captured", "lost"  *)
(* and "delivered" are history; no guard reads them but MaxPackets.        *)
(***************************************************************************)
EXTENDS Naturals, Sequences, SequencesExt

CONSTANTS Capacity,     \* maxsize of packet_queue
          MaxPackets,   \* bound on the packets the interface sees
          Pill

ASSUME CaptureAssumption == /\ Capacity \in Nat \ {0}
                            /\ MaxPackets \in Nat
                            /\ Pill \notin Nat

VARIABLES queue,      \* packet_queue
          stop,       \* stop_event
          sniffer,    \* the daemon thread
          consumer,   \* the generator
          captured,   \* number of packets handed to _packet_handler
          lost,       \* those that did not get into the queue
          delivered   \* those the generator yielded, in order

vars == <<queue, stop, sniffer, consumer, captured, lost, delivered>>

sniffing == <<sniffer, captured, lost>>
consuming == <<consumer, delivered>>

-----------------------------------------------------------------------------
Init ==
  /\ queue = <<>>
  /\ stop = FALSE
  /\ sniffer = "listening"
  /\ consumer = "getting"
  /\ captured = 0
  /\ lost = {}
  /\ delivered = <<>>

Room == Len(queue) < Capacity

\* Mutant: the queue takes one item too many.
HandlePacketOverfull ==
  /\ sniffer = "listening"
  /\ captured < MaxPackets
  /\ captured' = captured + 1
  /\ \/ /\ Len(queue) <= Capacity
        /\ queue' = Append(queue, captured')
        /\ UNCHANGED lost
     \/ /\ lost' = lost \cup {captured'}
        /\ UNCHANGED queue
  /\ sniffer' = "filtering"
  /\ UNCHANGED <<stop, consuming>>

\* Mutant: a packet that finds the queue full takes the place of the last one.
HandlePacketOverwriting ==
  /\ sniffer = "listening"
  /\ captured < MaxPackets
  /\ captured' = captured + 1
  /\ queue' = Append(IF Room THEN queue ELSE Front(queue), captured')
  /\ sniffer' = "filtering"
  /\ UNCHANGED <<stop, lost, consuming>>

\* _packet_handler: put_nowait; the packet is lost when the queue is full or
\* when its timestamp cannot be read.
HandlePacket ==
  /\ sniffer = "listening"
  /\ captured < MaxPackets
  /\ captured' = captured + 1
  /\ \/ /\ Room
        /\ queue' = Append(queue, captured')
        /\ UNCHANGED lost
     \/ /\ lost' = lost \cup {captured'}
        /\ UNCHANGED queue
  /\ sniffer' = "filtering"
  /\ UNCHANGED <<stop, consuming>>

\* Mutant: sniff() is started without the stop filter.
StopFilterMissing ==
  /\ sniffer = "filtering"
  /\ sniffer' = "listening"
  /\ UNCHANGED <<queue, stop, captured, lost, consuming>>

\* scapy asks stop_filter after it has handed over a packet, and only then.
StopFilter ==
  /\ sniffer = "filtering"
  /\ sniffer' = IF stop THEN "ending" ELSE "listening"
  /\ UNCHANGED <<queue, stop, captured, lost, consuming>>

\* sniff() raises: the interface goes down, the filter does not compile.
SniffFails ==
  /\ sniffer \in {"listening", "filtering"}
  /\ sniffer' = "ending"
  /\ UNCHANGED <<queue, stop, captured, lost, consuming>>

\* Mutant: the pill overtakes the packets that wait.
FarewellOvertaking ==
  /\ sniffer = "ending"
  /\ sniffer' = "gone"
  /\ queue' = IF Room THEN <<Pill>> \o queue ELSE queue
  /\ UNCHANGED <<stop, captured, lost, consuming>>

\* The thread's finally: put_nowait(None), and nothing when the queue is full.
Farewell ==
  /\ sniffer = "ending"
  /\ sniffer' = "gone"
  /\ queue' = IF Room THEN Append(queue, Pill) ELSE queue
  /\ UNCHANGED <<stop, captured, lost, consuming>>

\* Mutant: the pill is taken for one more packet and skipped.
GetSkippingPill ==
  /\ consumer = "getting"
  /\ queue # <<>>
  /\ queue' = Tail(queue)
  /\ IF Head(queue) = Pill
       THEN UNCHANGED consuming
       ELSE /\ consumer' = "yielded"
            /\ delivered' = Append(delivered, Head(queue))
  /\ UNCHANGED <<stop, sniffing>>

\* packet_queue.get(), which waits for an item, then yield or break.
Get ==
  /\ consumer = "getting"
  /\ queue # <<>>
  /\ queue' = Tail(queue)
  /\ IF Head(queue) = Pill
       THEN consumer' = "drained" /\ UNCHANGED delivered
       ELSE /\ consumer' = "yielded"
            /\ delivered' = Append(delivered, Head(queue))
  /\ UNCHANGED <<stop, sniffing>>

\* The main thread has processed the packet and asks for the next.
Resume ==
  /\ consumer = "yielded"
  /\ consumer' = "getting"
  /\ UNCHANGED <<queue, stop, delivered, sniffing>>

\* Ctrl+C, or the main thread gives the generator up.
Interrupt ==
  /\ consumer \in {"getting", "yielded"}
  /\ consumer' = "interrupted"
  /\ UNCHANGED <<queue, stop, delivered, sniffing>>

\* The generator's finally.
Finish ==
  /\ consumer \in {"drained", "interrupted"}
  /\ consumer' = "closed"
  /\ stop' = TRUE
  /\ UNCHANGED <<queue, delivered, sniffing>>

Next ==
  \/ HandlePacket \/ StopFilter \/ SniffFails \/ Farewell
  \/ Get \/ Resume \/ Interrupt \/ Finish

Spec == Init /\ [][Next]_vars

\* Both threads run whenever they can.  Nothing is assumed of the traffic, of
\* failures or of the user.
FairSpec ==
  Spec /\ WF_vars(StopFilter) /\ WF_vars(Farewell)
       /\ WF_vars(Get) /\ WF_vars(Resume) /\ WF_vars(Finish)

-----------------------------------------------------------------------------
(* Properties *)

PillSent == Len(queue) > 0 /\ queue[Len(queue)] = Pill

\* The packets that wait: the queue without the pill behind them.
Waiting == IF PillSent THEN SubSeq(queue, 1, Len(queue) - 1) ELSE queue

Ascending(s) == \A i, j \in DOMAIN s : i < j => s[i] < s[j]

TypeOK ==
  /\ queue \in Seq((1..MaxPackets) \cup {Pill}) /\ Len(queue) <= Capacity
  /\ stop \in BOOLEAN
  /\ sniffer \in {"listening", "filtering", "ending", "gone"}
  /\ consumer \in {"getting", "yielded", "drained", "interrupted", "closed"}
  /\ captured \in 0..MaxPackets
  /\ lost \subseteq 1..captured
  /\ delivered \in Seq(1..captured)

\* What the pipeline gets, followed by what waits in the queue, is the traffic
\* in its order, without repetitions, and short of exactly the lost packets.
InOrderOnce ==
  LET stream == delivered \o Waiting
  IN /\ Ascending(stream)
     /\ ToSet(stream) = (1..captured) \ lost

\* The end of the stream is believed only when it is one: a generator that has
\* read the pill leaves no packet behind, and no packet follows.
DrainedIsComplete ==
  consumer = "drained" =>
    /\ queue = <<>> /\ sniffer = "gone"
    /\ ToSet(delivered) = (1..captured) \ lost

\* A pill that got into the queue ends the generator, however the queue, the
\* pauses at yield and an interrupt interleave.
PillEndsCapture == (\E i \in DOMAIN queue : queue[i] = Pill) ~> (consumer = "closed")

\* Once the generator has set stop_event, the packet being handled is the last
\* one: the thread leaves and does not listen again.
StopEndsSniffer == (consumer = "closed" /\ sniffer = "filtering") ~> (sniffer = "gone")

\* "This ensures the generator can exit cleanly even if the sniffing thread
\* terminates unexpectedly" (the comment on the pill): once the thread is gone
\* the generator comes to its end.  It does not when the queue was full.
SnifferEndEndsCapture == (sniffer = "gone") ~> (consumer = "closed")
=============================================================================
