------------------------------ MODULE Wire_proofs ------------------------------
(***************************************************************************)
(* Proofs about one connection, for frames of any length, a stream of any  *)
(* capacity and any number of calls.  They rest on whose bytes are where:  *)
(* a caller makes one call at a time, so while the connection holds every  *)
(* byte under way is of the call just made, and what a reset leaves behind *)
(* is the beginning of one frame.                                          *)
(***************************************************************************)
EXTENDS Wire, SequenceTheorems, TLAPS

Stream == Seq(Nat \X Nat)

Fates == {"unmade", "waiting", "answered", "rejected", "unsent", "unknown"}

(* The calls that were carried out. *)
Carried == {done[i] : i \in 1..Len(done)}

WireTypes ==
  /\ kind \in Seq(Kinds) /\ Made <= Calls
  /\ fate \in [1..Calls -> Fates]
  /\ client \in [at : {"idle", "sending", "receiving"}, sent : 0..FrameLen, got : Stream]
  /\ server \in [at : {"receiving", "answering", "looping", "closed"},
                 answers : Nat, sent : 0..FrameLen, got : Stream]
  /\ toServer \in Stream /\ toClient \in Stream
  /\ connected \in BOOLEAN /\ running \in BOOLEAN
  /\ done \in Seq(Nat)

(* What an end has got and what is on its way to it are the bytes of frame *)
(* n from the first on.                                                    *)
Carries(got, channel, n) ==
  /\ \A i \in 1..Len(got) : got[i] = <<n, i>>
  /\ \A i \in 1..Len(channel) : channel[i] = <<n, Len(got) + i>>

Total(got, channel) == Len(got) + Len(channel)

(* One call is under way, the one just made, unless the caller is idle. *)
OneCall ==
  /\ \A n \in 1..Calls :
       /\ n > Made <=> fate[n] = "unmade"
       /\ fate[n] = "waiting" => n = Made
  /\ client.at = "idle" => client = Idle /\ \A n \in 1..Calls : fate[n] # "waiting"
  /\ client.at # "idle" => Made > 0 /\ fate[Made] = "waiting"
  /\ client.at = "sending" => client.sent < FrameLen /\ client.got = << >> /\ Made \notin Carried

(* Only requests are carried out, and a caller that was told knows. *)
Fair ==
  \A n \in Carried :
    /\ n \in 1..Made
    /\ kind[n] = "request"
    /\ fate[n] \notin {"unsent", "rejected"}

(* What comes back is the answer to the call just made. *)
ToClient ==
  /\ client.at # "receiving" => toClient = << >>
  /\ client.at = "receiving" =>
       /\ Carries(client.got, toClient, Made)
       /\ Total(client.got, toClient) <= FrameLen
       /\ Total(client.got, toClient) > 0 =>
            server.got = << >> /\ (kind[Made] = "request" => Made \in Carried)

(* What the handler has got is the beginning of a frame not yet carried    *)
(* out, and of one that was not sent it never has all.                     *)
ToServer ==
  /\ server.at # "receiving" => server.got = << >>
  /\ server.got # << >> =>
       \E n \in 1..Made :
         /\ Carries(server.got, toServer, n) /\ Total(server.got, toServer) <= FrameLen
         /\ \A m \in Carried : m < n
         /\ fate[n] # "rejected"
         /\ fate[n] = "unsent" \/ (n = Made /\ client.at = "sending") =>
              Total(server.got, toServer) < FrameLen

Awaiting == server.at \in {"receiving", "looping"}

(* The frame is on its way, its answer is, or the answer is all sent. *)
Asked ==
  /\ Awaiting /\ Made \notin Carried
  /\ Carries(server.got, toServer, Made) /\ Total(server.got, toServer) = FrameLen
  /\ client.got = << >> /\ toClient = << >>

BeingAnswered ==
  /\ server.at = "answering" /\ server.answers = Made
  /\ kind[Made] = "request" => Made \in Carried
  /\ server.got = << >> /\ toServer = << >>
  /\ server.sent < FrameLen /\ Total(client.got, toClient) = server.sent

Answered ==
  /\ Awaiting /\ server.got = << >> /\ toServer = << >>
  /\ Total(client.got, toClient) = FrameLen

(* While the connection holds, both ends are at the same call. *)
InStep ==
  /\ ~connected => toServer = << >>
  /\ connected =>
       /\ client.at = "idle" => Awaiting /\ server.got = << >> /\ toServer = << >>
       /\ client.at = "sending" =>
            /\ Awaiting
            /\ Carries(server.got, toServer, Made) /\ Total(server.got, toServer) = client.sent
       /\ client.at = "receiving" => Asked \/ BeingAnswered \/ Answered

WireInv == WireTypes /\ OneCall /\ Fair /\ ToClient /\ ToServer /\ InStep

-----------------------------------------------------------------------------
(* Bytes on the move. *)

LEMMA Streams ==
  ASSUME NEW s \in Stream
  PROVE  /\ Len(s) \in Nat
         /\ s = << >> <=> Len(s) = 0
         /\ \A i \in 1..Len(s) : s[i] \in Nat \X Nat
<1>1. Len(s) \in Nat /\ \A i \in 1..Len(s) : s[i] \in Nat \X Nat
  BY LenProperties, ElementOfSeq DEF Stream
<1>2. s = << >> <=> Len(s) = 0
  BY EmptySeq DEF Stream
<1>3. QED
  BY <1>1, <1>2

LEMMA EmptyStream == << >> \in Stream /\ Len(<< >>) = 0
BY EmptySeq DEF Stream

LEMMA FrameBytes ==
  ASSUME NEW n \in Nat, NEW from \in Nat, NEW k \in Nat \ {0}
  PROVE  /\ Bytes(n, from + 1, from + k) \in Stream
         /\ Len(Bytes(n, from + 1, from + k)) = k
         /\ \A i \in 1..k : Bytes(n, from + 1, from + k)[i] = <<n, from + i>>
<1> DEFINE b == Bytes(n, from + 1, from + k)
<1>1. b = [i \in 1..k |-> <<n, from + i>>]
  <2>1. (from + k) - (from + 1) + 1 = k /\ \A i \in 1..k : from + 1 + i - 1 = from + i
    OBVIOUS
  <2>2. QED
    BY <2>1 DEF Bytes
<1> HIDE DEF b
<1>2. b \in [1..k -> Nat \X Nat]
  BY <1>1
<1>3. b \in Seq(Nat \X Nat)
  BY <1>2, SeqDef
<1>4. Len(b) \in Nat /\ 1..Len(b) = 1..k
  BY <1>1, <1>3, LenProperties
<1>5. Len(b) = k
  BY <1>4
<1>6. \A i \in 1..k : b[i] = <<n, from + i>>
  BY <1>1
<1>7. QED
  BY <1>3, <1>5, <1>6 DEF b, Stream

(* k more bytes are read. *)
LEMMA Read ==
  ASSUME NEW got \in Stream, NEW channel \in Stream, NEW k \in 1..Len(channel)
  PROVE  /\ got \o SubSeq(channel, 1, k) \in Stream
         /\ SubSeq(channel, k + 1, Len(channel)) \in Stream
         /\ Len(got \o SubSeq(channel, 1, k)) = Len(got) + k
         /\ Len(SubSeq(channel, k + 1, Len(channel))) = Len(channel) - k
         /\ \A n \in Nat : Carries(got, channel, n) =>
              Carries(got \o SubSeq(channel, 1, k), SubSeq(channel, k + 1, Len(channel)), n)
<1> DEFINE head == SubSeq(channel, 1, k)
           tail == SubSeq(channel, k + 1, Len(channel))
           more == got \o head
<1>0. Len(channel) \in Nat /\ Len(got) \in Nat /\ k \in Nat /\ k >= 1 /\ k <= Len(channel)
  BY Streams
<1>1. \A i \in 1..Len(channel) : channel[i] \in Nat \X Nat
  BY Streams
<1>2. head \in Seq(Nat \X Nat) /\ Len(head) = k /\ \A i \in 1..k : head[i] = channel[i]
  <2>1. \A i \in 1..k : channel[i] \in Nat \X Nat
    BY <1>0, <1>1
  <2>2. /\ head \in Seq(Nat \X Nat) /\ Len(head) = IF 1 <= k THEN k - 1 + 1 ELSE 0
        /\ \A i \in 1..(k - 1 + 1) : head[i] = channel[1 + i - 1]
    BY <1>0, <2>1, SubSeqProperties
  <2>3. k - 1 + 1 = k /\ \A i \in 1..k : 1 + i - 1 = i
    BY <1>0
  <2>4. QED
    BY <1>0, <2>2, <2>3
<1>3. /\ tail \in Seq(Nat \X Nat) /\ Len(tail) = Len(channel) - k
      /\ \A i \in 1..Len(tail) : tail[i] = channel[k + i]
  <2>1. \A i \in (k + 1)..Len(channel) : channel[i] \in Nat \X Nat
    BY <1>0, <1>1
  <2>2. /\ tail \in Seq(Nat \X Nat)
        /\ Len(tail) = IF k + 1 <= Len(channel) THEN Len(channel) - (k + 1) + 1 ELSE 0
        /\ \A i \in 1..(Len(channel) - (k + 1) + 1) : tail[i] = channel[(k + 1) + i - 1]
    BY <1>0, <2>1, SubSeqProperties
  <2> HIDE DEF tail
  <2>3. Len(channel) - (k + 1) + 1 = Len(channel) - k /\ \A i \in Nat : (k + 1) + i - 1 = k + i
    BY <1>0
  <2>4. Len(tail) = Len(channel) - k
    BY <1>0, <2>2
  <2>5. ASSUME NEW i \in 1..Len(tail) PROVE tail[i] = channel[k + i]
    <3>1. i \in 1..(Len(channel) - (k + 1) + 1) /\ (k + 1) + i - 1 = k + i
      BY <1>0, <2>4
    <3>2. QED
      BY <2>2, <3>1
  <2>6. QED
    BY <2>2, <2>4, <2>5
<1>4. /\ more \in Seq(Nat \X Nat) /\ Len(more) = Len(got) + k
      /\ \A i \in 1..(Len(got) + k) :
           more[i] = IF i <= Len(got) THEN got[i] ELSE head[i - Len(got)]
  BY <1>2, ConcatProperties DEF Stream
<1> HIDE DEF head, tail, more
<1>5. ASSUME NEW n \in Nat, Carries(got, channel, n) PROVE Carries(more, tail, n)
  <2>1. \A i \in 1..Len(got) : got[i] = <<n, i>>
    BY <1>5 DEF Carries
  <2>2. \A i \in 1..Len(channel) : channel[i] = <<n, Len(got) + i>>
    BY <1>5 DEF Carries
  <2>3. ASSUME NEW i \in 1..Len(more) PROVE more[i] = <<n, i>>
    <3>0. Len(more) = Len(got) + k /\ i \in 1..(Len(got) + k)
      BY <1>4
    <3>1. CASE i <= Len(got)
      <4>1. i \in 1..Len(got)
        BY <1>0, <3>0, <3>1
      <4>2. QED
        BY <1>4, <2>1, <3>0, <3>1, <4>1
    <3>2. CASE ~(i <= Len(got))
      <4>1. i - Len(got) \in 1..k /\ i - Len(got) \in 1..Len(channel)
        BY <1>0, <3>0, <3>2
      <4>2. more[i] = channel[i - Len(got)]
        BY <1>2, <1>4, <3>0, <3>2, <4>1
      <4>3. channel[i - Len(got)] = <<n, Len(got) + (i - Len(got))>>
        BY <2>2, <4>1
      <4>4. Len(got) + (i - Len(got)) = i
        BY <1>0
      <4>5. QED
        BY <4>2, <4>3, <4>4
    <3>3. QED
      BY <3>1, <3>2
  <2>4. ASSUME NEW i \in 1..Len(tail) PROVE tail[i] = <<n, Len(more) + i>>
    <3>1. k + i \in 1..Len(channel) /\ Len(got) + (k + i) = Len(more) + i
      BY <1>0, <1>3, <1>4
    <3>2. QED
      BY <1>3, <2>2, <3>1
  <2>5. QED
    BY <2>3, <2>4 DEF Carries
<1>6. QED
  BY <1>2, <1>3, <1>4, <1>5 DEF head, tail, more, Stream

(* k more bytes are put on the stream. *)
LEMMA Put ==
  ASSUME NEW got \in Stream, NEW channel \in Stream, NEW n \in Nat, NEW k \in Nat \ {0},
         NEW sent \in Nat, Total(got, channel) = sent
  PROVE  /\ channel \o Bytes(n, sent + 1, sent + k) \in Stream
         /\ Total(got, channel \o Bytes(n, sent + 1, sent + k)) = sent + k
         /\ Carries(got, channel, n) => Carries(got, channel \o Bytes(n, sent + 1, sent + k), n)
<1> DEFINE b == Bytes(n, sent + 1, sent + k)
           more == channel \o b
<1>0. Len(channel) \in Nat /\ Len(got) \in Nat /\ Len(got) + Len(channel) = sent
  BY Streams DEF Total
<1>1. b \in Seq(Nat \X Nat) /\ Len(b) = k /\ \A i \in 1..k : b[i] = <<n, sent + i>>
  BY FrameBytes DEF Stream
<1> HIDE DEF b
<1>2. /\ more \in Seq(Nat \X Nat) /\ Len(more) = Len(channel) + k
      /\ \A i \in 1..(Len(channel) + k) :
           more[i] = IF i <= Len(channel) THEN channel[i] ELSE b[i - Len(channel)]
  BY <1>1, ConcatProperties DEF Stream
<1> HIDE DEF more
<1>3. ASSUME Carries(got, channel, n) PROVE Carries(got, more, n)
  <2>1. ASSUME NEW i \in 1..Len(more) PROVE more[i] = <<n, Len(got) + i>>
    <3>0. Len(more) = Len(channel) + k /\ i \in 1..(Len(channel) + k)
      BY <1>2
    <3>1. CASE i <= Len(channel)
      <4>1. i \in 1..Len(channel)
        BY <1>0, <3>0, <3>1
      <4>2. QED
        BY <1>2, <1>3, <3>0, <3>1, <4>1 DEF Carries
    <3>2. CASE ~(i <= Len(channel))
      <4>1. i - Len(channel) \in 1..k /\ sent + (i - Len(channel)) = Len(got) + i
        BY <1>0, <3>0, <3>2
      <4>2. more[i] = b[i - Len(channel)]
        BY <1>2, <3>0, <3>2
      <4>3. QED
        BY <1>1, <4>1, <4>2
    <3>3. QED
      BY <3>1, <3>2
  <2>2. QED
    BY <1>3, <2>1 DEF Carries
<1>4. Len(got) + Len(more) = sent + k
  <2>1. Len(more) = Len(channel) + k
    BY <1>2
  <2>2. QED
    BY <1>0, <2>1
<1>5. QED
  BY <1>2, <1>3, <1>4 DEF b, more, Stream, Total

(* What recv_frame asks for, and what it has when it asks for no more. *)
LEMMA Wants ==
  ASSUME NEW got \in Stream, Len(got) <= FrameLen
  PROVE  /\ Whole(got) <=> Len(got) = FrameLen
         /\ got # << >> => Len(got) > 0
         /\ \A channel \in Stream : \A k \in Available(got, channel) :
              k \in 1..Len(channel) /\ Len(got) + k <= FrameLen
<1>1. Len(got) \in Nat /\ HeaderLen \in Nat /\ 1 <= HeaderLen /\ HeaderLen <= FrameLen /\ FrameLen \in Nat
  BY Streams, LengthsAssumption
<1>2. Whole(got) <=> Len(got) = FrameLen
  BY <1>1 DEF Whole, Wanted
<1>3. got # << >> => Len(got) > 0
  BY <1>1, Streams
<1>4. ASSUME NEW channel \in Stream, NEW k \in Available(got, channel)
      PROVE  k \in 1..Len(channel) /\ Len(got) + k <= FrameLen
  <2>1. k \in 1..Wanted(got) /\ k <= Len(channel) /\ Len(channel) \in Nat
    BY <1>4, Streams DEF Available
  <2>2. Wanted(got) \in Int /\ Wanted(got) <= FrameLen - Len(got)
    BY <1>1 DEF Wanted
  <2>3. QED
    BY <1>1, <2>1, <2>2
<1>5. QED
  BY <1>2, <1>3, <1>4

(* The bytes of one frame, all of them, decode. *)
LEMMA FrameDecodes ==
  ASSUME NEW got \in Stream, NEW channel \in Stream, NEW n \in Nat, Carries(got, channel, n),
         got # << >>
  PROVE  /\ got[1] = <<n, 1>> /\ got[1][1] = n
         /\ Len(got) = FrameLen => Decodes(got)
<1>1. Len(got) \in Nat /\ Len(got) > 0
  BY Streams
<1>2. \A i \in 1..Len(got) : got[i] = <<n, i>>
  BY DEF Carries
<1>3. got[1] = <<n, 1>>
  BY <1>1, <1>2
<1>4. got[1][1] = n
  BY <1>3
<1>5. ASSUME Len(got) = FrameLen PROVE Decodes(got)
  <2>1. FrameLen \in Nat \ {0} /\ FrameLen = 0 + FrameLen /\ 1 = 0 + 1
    BY <1>1, <1>5
  <2>2. /\ Bytes(n, 1, FrameLen) \in Stream /\ Len(Bytes(n, 1, FrameLen)) = FrameLen
        /\ \A i \in 1..FrameLen : Bytes(n, 1, FrameLen)[i] = <<n, 0 + i>>
    BY <2>1, FrameBytes
  <2>3. \A i \in 1..Len(got) : got[i] = Bytes(n, 1, FrameLen)[i]
    BY <1>2, <1>5, <2>2
  <2>4. got = Bytes(n, 1, FrameLen)
    BY <1>5, <2>2, <2>3, SeqEqual DEF Stream
  <2>5. QED
    BY <1>4, <2>4 DEF Decodes
<1>6. QED
  BY <1>3, <1>4, <1>5

-----------------------------------------------------------------------------
(* The invariant. *)

LEMMA Shapes ==
  ASSUME WireInv
  PROVE  /\ Made \in Nat /\ Made <= Calls /\ Calls \in Nat
         /\ FrameLen \in Nat /\ FrameLen > 0
         /\ client.got \in Stream /\ server.got \in Stream
         /\ toServer \in Stream /\ toClient \in Stream
         /\ Len(client.got) \in Nat /\ Len(server.got) \in Nat
         /\ Len(toServer) \in Nat /\ Len(toClient) \in Nat
         /\ client.sent \in 0..FrameLen /\ server.sent \in 0..FrameLen
         /\ Carried \subseteq 1..Made
<1>1. /\ client.got \in Stream /\ server.got \in Stream
      /\ toServer \in Stream /\ toClient \in Stream
      /\ client.sent \in 0..FrameLen /\ server.sent \in 0..FrameLen
      /\ kind \in Seq(Kinds) /\ Made <= Calls
  BY DEF WireInv, WireTypes
<1>2. Made \in Nat
  BY <1>1, LenProperties DEF Made
<1>3. Carried \subseteq 1..Made
  BY DEF WireInv, Fair
<1>4. FrameLen \in Nat /\ FrameLen > 0 /\ Calls \in Nat
  BY LengthsAssumption
<1>5. QED
  BY <1>1, <1>2, <1>3, <1>4, Streams

LEMMA InitWireInv == Init => WireInv
<1> SUFFICES ASSUME Init PROVE WireInv
  OBVIOUS
<1>0. Len(kind) = 0 /\ Len(done) = 0 /\ kind \in Seq(Kinds) /\ done \in Seq(Nat)
  BY EmptySeq DEF Init
<1>1. Carried = {} /\ Made = 0
  BY <1>0 DEF Carried, Made
<1>2. WireTypes
  BY <1>0, <1>1, EmptyStream, LengthsAssumption
  DEF Init, WireTypes, Idle, Receiving, Fates
<1>3. OneCall
  BY <1>1, LengthsAssumption DEF Init, OneCall, Idle
<1>4. Fair
  BY <1>1 DEF Fair
<1>5. ToClient /\ ToServer
  BY DEF Init, ToClient, ToServer, Idle, Receiving
<1>6. InStep
  BY DEF Init, InStep, Idle, Receiving, Awaiting
<1>7. QED
  BY <1>2, <1>3, <1>4, <1>5, <1>6 DEF WireInv

LEMMA RequestInv ==
  ASSUME WireInv, NEW k \in Kinds, Request(k)
  PROVE  WireInv'
<1>0. /\ client.at = "idle" /\ client = Idle /\ Made < Calls /\ Made \in Nat /\ Calls \in Nat
      /\ Carried \subseteq 1..Made
  BY Shapes DEF Request, WireInv, OneCall
<1>1. /\ client' = [at |-> "sending", sent |-> 0, got |-> << >>]
      /\ fate' = [fate EXCEPT ![Made + 1] = "waiting"]
      /\ UNCHANGED <<server, running, done, toServer, toClient, connected>>
  BY DEF Request, Idle, stream, theServer
<1>2. /\ kind' \in Seq(Kinds) /\ Made' = Made + 1
      /\ \A n \in 1..Made : kind'[n] = kind[n]
  BY AppendProperties DEF Request, WireInv, WireTypes, Made
<1>3. /\ fate' \in [1..Calls -> Fates] /\ fate'[Made + 1] = "waiting"
      /\ \A n \in 1..Calls : n # Made + 1 => fate'[n] = fate[n]
  BY <1>0, <1>1 DEF WireInv, WireTypes, Fates
<1>4. Carried' = Carried
  BY <1>1 DEF Carried
<1>5. WireTypes'
  BY <1>0, <1>1, <1>2, <1>3, EmptyStream, Shapes DEF WireInv, WireTypes
<1>6. OneCall'
  <2>1. \A n \in 1..Calls :
          /\ n > Made' <=> fate'[n] = "unmade"
          /\ fate'[n] = "waiting" => n = Made'
    BY <1>0, <1>2, <1>3 DEF WireInv, OneCall
  <2>2. Made' > 0 /\ fate'[Made'] = "waiting" /\ Made' \notin Carried
    BY <1>0, <1>2, <1>3
  <2>3. QED
    BY <1>1, <1>4, <2>1, <2>2, Shapes DEF OneCall
<1>7. Fair'
  <2> SUFFICES ASSUME NEW n \in Carried
               PROVE  /\ n \in 1..Made' /\ kind'[n] = "request"
                      /\ fate'[n] \notin {"unsent", "rejected"}
    BY <1>4 DEF Fair
  <2>1. n \in 1..Made /\ kind[n] = "request" /\ fate[n] \notin {"unsent", "rejected"}
    BY DEF WireInv, Fair
  <2>2. QED
    BY <1>0, <1>2, <1>3, <2>1
<1>8. ToClient'
  BY <1>0, <1>1 DEF WireInv, ToClient
<1>9. ToServer'
  <2>1. server.at # "receiving" => server.got = << >>
    BY DEF WireInv, ToServer
  <2>2. ASSUME server.got # << >>
        PROVE  \E n \in 1..Made' :
                 /\ Carries(server.got, toServer, n) /\ Total(server.got, toServer) <= FrameLen
                 /\ \A m \in Carried : m < n
                 /\ fate'[n] # "rejected"
                 /\ fate'[n] = "unsent" \/ (n = Made' /\ client'.at = "sending") =>
                      Total(server.got, toServer) < FrameLen
    <3>1. PICK n \in 1..Made :
            /\ Carries(server.got, toServer, n) /\ Total(server.got, toServer) <= FrameLen
            /\ \A m \in Carried : m < n
            /\ fate[n] # "rejected"
            /\ fate[n] = "unsent" => Total(server.got, toServer) < FrameLen
      BY <2>2 DEF WireInv, ToServer
    <3>2. n \in 1..Made' /\ n # Made' /\ fate'[n] = fate[n]
      BY <1>0, <1>2, <1>3
    <3>3. QED
      BY <3>1, <3>2
  <2>3. QED
    BY <1>1, <1>4, <2>1, <2>2 DEF ToServer
<1>10. InStep'
  <2>1. connected => Awaiting /\ server.got = << >> /\ toServer = << >>
    BY <1>0 DEF WireInv, InStep
  <2>2. ~connected => toServer = << >>
    BY DEF WireInv, InStep
  <2>3. Carries(<< >>, << >>, Made') /\ Total(<< >>, << >>) = 0
    BY EmptyStream DEF Carries, Total
  <2>4. QED
    BY <1>1, <2>1, <2>2, <2>3 DEF InStep, Awaiting
<1>11. QED
  BY <1>5, <1>6, <1>7, <1>8, <1>9, <1>10 DEF WireInv

LEMMA ClientSendsInv ==
  ASSUME WireInv, NEW k \in 1..FrameLen, ClientSends(k)
  PROVE  WireInv'
<1> DEFINE sent == client.sent + k
           step == IF sent = FrameLen THEN "receiving" ELSE "sending"
<1>0. /\ client.at = "sending" /\ client.sent < FrameLen /\ client.got = << >>
      /\ Made \notin Carried /\ Made > 0 /\ toClient = << >>
  BY DEF ClientSends, WireInv, OneCall, ToClient
<1>1. /\ k \in Nat \ {0} /\ client.sent \in Nat /\ sent \in Nat /\ sent <= FrameLen
      /\ FrameLen \in Nat /\ Made \in Nat
  <2>1. FrameLen \in Nat /\ Made \in Nat /\ client.sent \in 0..FrameLen
    BY Shapes
  <2>2. k \in Portions(client.sent, toServer)
    BY DEF ClientSends
  <2>3. k \in Nat \ {0} /\ k <= FrameLen - client.sent
    BY <2>1, <2>2 DEF Portions
  <2> HIDE DEF step
  <2>4. QED
    BY <2>1, <2>3
<1>2. /\ client' = [client EXCEPT !.sent = sent, !.at = step]
      /\ toServer' = IF connected THEN toServer \o Bytes(Made, client.sent + 1, sent) ELSE toServer
      /\ UNCHANGED <<kind, fate, toClient, connected, server, running, done>>
  BY DEF ClientSends, theServer
<1>3. /\ step \in {"sending", "receiving"}
      /\ step = "sending" <=> sent # FrameLen
  OBVIOUS
<1>4. /\ connected =>
           /\ Awaiting
           /\ Carries(server.got, toServer, Made) /\ Total(server.got, toServer) = client.sent
           /\ toServer' \in Stream
           /\ Carries(server.got, toServer', Made) /\ Total(server.got, toServer') = sent
  <2>1. SUFFICES ASSUME connected
                 PROVE  /\ Awaiting
                        /\ Carries(server.got, toServer, Made)
                        /\ Total(server.got, toServer) = client.sent
                        /\ toServer' \in Stream
                        /\ Carries(server.got, toServer', Made)
                        /\ Total(server.got, toServer') = sent
    OBVIOUS
  <2>2. /\ Awaiting
        /\ Carries(server.got, toServer, Made) /\ Total(server.got, toServer) = client.sent
    BY <1>0, <2>1 DEF WireInv, InStep
  <2>3. /\ toServer \o Bytes(Made, client.sent + 1, sent) \in Stream
        /\ Carries(server.got, toServer \o Bytes(Made, client.sent + 1, sent), Made)
        /\ Total(server.got, toServer \o Bytes(Made, client.sent + 1, sent)) = sent
    <3>1. server.got \in Stream /\ toServer \in Stream
      BY Shapes
    <3>2. PICK m \in Nat : m = client.sent
      BY <1>1
    <3>3. Total(server.got, toServer) = m
      BY <2>2, <3>2
    <3>4. /\ toServer \o Bytes(Made, m + 1, m + k) \in Stream
          /\ Total(server.got, toServer \o Bytes(Made, m + 1, m + k)) = m + k
          /\ Carries(server.got, toServer, Made) =>
               Carries(server.got, toServer \o Bytes(Made, m + 1, m + k), Made)
      BY <1>1, <3>1, <3>3, Put
    <3>5. QED
      BY <2>2, <3>2, <3>4
  <2>4. QED
    BY <1>2, <2>1, <2>2, <2>3
<1>5. ~connected => toServer' = << >> /\ toServer = << >>
  BY <1>2 DEF WireInv, InStep
<1>6. /\ client'.at = step /\ client'.sent = sent /\ client'.got = << >>
      /\ client' \in [at : {"idle", "sending", "receiving"}, sent : 0..FrameLen, got : Stream]
  <2>1. client \in [at : {"idle", "sending", "receiving"}, sent : 0..FrameLen, got : Stream]
    BY DEF WireInv, WireTypes
  <2>2. sent \in 0..FrameLen
    BY <1>1
  <2> HIDE DEF sent, step
  <2>3. client' = [at |-> step, sent |-> sent, got |-> client.got]
    BY <1>2, <2>1
  <2>4. QED
    BY <1>0, <1>3, <2>2, <2>3, EmptyStream
<1> HIDE DEF sent, step
<1>7. Carried' = Carried /\ Made' = Made /\ (Awaiting' <=> Awaiting)
  BY <1>2 DEF Carried, Made, Awaiting
<1>8. WireTypes'
  <2>1. toServer' \in Stream
    BY <1>4, <1>5, EmptyStream
  <2>2. QED
    BY <1>2, <1>6, <1>7, <2>1 DEF WireInv, WireTypes
<1>9. OneCall'
  BY <1>0, <1>1, <1>2, <1>3, <1>6, <1>7 DEF WireInv, OneCall
<1>10. Fair'
  BY <1>2, <1>7 DEF WireInv, Fair
<1>11. ToClient'
  BY <1>0, <1>1, <1>2, <1>6, EmptyStream DEF ToClient, Carries, Total
<1>12. ToServer'
  <2>1. server.at # "receiving" => server.got = << >>
    BY DEF WireInv, ToServer
  <2>2. ASSUME server.got # << >>
        PROVE  \E n \in 1..Made :
                 /\ Carries(server.got, toServer', n) /\ Total(server.got, toServer') <= FrameLen
                 /\ \A m \in Carried : m < n
                 /\ fate[n] # "rejected"
                 /\ fate[n] = "unsent" \/ (n = Made /\ step = "sending") =>
                      Total(server.got, toServer') < FrameLen
    <3>1. CASE connected
      <4>1. \A m \in Carried : m < Made
        BY <1>0, <1>1, Shapes
      <4>2. Made \in 1..Made /\ fate[Made] = "waiting"
        BY <1>0, <1>1 DEF WireInv, OneCall
      <4>3. QED
        BY <1>1, <1>3, <1>4, <3>1, <4>1, <4>2
    <3>2. CASE ~connected
      <4>1. PICK n \in 1..Made :
              /\ Carries(server.got, toServer, n) /\ Total(server.got, toServer) <= FrameLen
              /\ \A m \in Carried : m < n
              /\ fate[n] # "rejected"
              /\ fate[n] = "unsent" \/ (n = Made /\ client.at = "sending") =>
                   Total(server.got, toServer) < FrameLen
        BY <2>2 DEF WireInv, ToServer
      <4>2. QED
        BY <1>0, <1>5, <3>2, <4>1
    <3>3. QED
      BY <3>1, <3>2
  <2>3. QED
    BY <1>2, <1>6, <1>7, <2>1, <2>2 DEF ToServer
<1>13. InStep'
  <2>1. ~connected' => toServer' = << >>
    BY <1>2, <1>5
  <2>2. ASSUME connected, step = "sending"
        PROVE  /\ Awaiting
               /\ Carries(server.got, toServer', Made) /\ Total(server.got, toServer') = sent
    BY <1>4, <2>2
  <2>3. ASSUME connected, step = "receiving" PROVE Asked'
    BY <1>0, <1>2, <1>3, <1>4, <1>6, <1>7, <2>3 DEF Asked
  <2>4. QED
    BY <1>2, <1>3, <1>6, <1>7, <2>1, <2>2, <2>3 DEF InStep
<1>14. QED
  BY <1>8, <1>9, <1>10, <1>11, <1>12, <1>13 DEF WireInv

(* A call ends. *)
LEMMA ReturnsInv ==
  ASSUME WireInv, client.at # "idle", toClient = << >>,
         NEW what \in Fates \ {"unmade", "waiting"},
         Returns(what), UNCHANGED <<stream, theServer>>,
         connected => Awaiting /\ server.got = << >> /\ toServer = << >>,
         what \in {"unsent", "rejected"} => Made \notin Carried,
         what = "unsent" => client.at = "sending",
         what = "rejected" => server.got = << >>
  PROVE  WireInv'
<1>0. /\ Made > 0 /\ Made \in Nat /\ Made <= Calls /\ Calls \in Nat /\ Carried \subseteq 1..Made
      /\ fate[Made] = "waiting"
  BY Shapes DEF WireInv, OneCall
<1>1. /\ fate' = [fate EXCEPT ![Made] = what] /\ client' = Idle
      /\ UNCHANGED <<kind, toServer, toClient, connected, server, running, done>>
  BY DEF Returns, stream, theServer
<1>2. /\ fate' \in [1..Calls -> Fates] /\ fate'[Made] = what
      /\ \A n \in 1..Calls : n # Made => fate'[n] = fate[n]
  BY <1>0, <1>1 DEF WireInv, WireTypes
<1>3. Carried' = Carried /\ Made' = Made /\ (Awaiting' <=> Awaiting)
  BY <1>1 DEF Carried, Made, Awaiting
<1>4. client'.at = "idle" /\ client'.sent = 0 /\ client'.got = << >>
  BY <1>1 DEF Idle
<1>5. WireTypes'
  BY <1>1, <1>2, <1>3, EmptyStream, LengthsAssumption DEF WireInv, WireTypes, Idle
<1>6. OneCall'
  <2>1. \A n \in 1..Calls : (n > Made <=> fate'[n] = "unmade") /\ fate'[n] # "waiting"
    BY <1>0, <1>2 DEF WireInv, OneCall
  <2>2. QED
    BY <1>1, <1>3, <1>4, <2>1 DEF OneCall
<1>7. Fair'
  <2> SUFFICES ASSUME NEW n \in Carried
               PROVE  /\ n \in 1..Made /\ kind[n] = "request"
                      /\ fate'[n] \notin {"unsent", "rejected"}
    BY <1>1, <1>3 DEF Fair
  <2>1. n \in 1..Made /\ kind[n] = "request" /\ fate[n] \notin {"unsent", "rejected"}
    BY DEF WireInv, Fair
  <2>2. n = Made => what \notin {"unsent", "rejected"}
    OBVIOUS
  <2>3. QED
    BY <1>0, <1>2, <2>1, <2>2
<1>8. ToClient'
  BY <1>1, <1>4 DEF ToClient
<1>9. ToServer'
  <2>1. server.at # "receiving" => server.got = << >>
    BY DEF WireInv, ToServer
  <2>2. ASSUME server.got # << >>
        PROVE  \E n \in 1..Made :
                 /\ Carries(server.got, toServer, n) /\ Total(server.got, toServer) <= FrameLen
                 /\ \A m \in Carried : m < n
                 /\ fate'[n] # "rejected"
                 /\ fate'[n] = "unsent" => Total(server.got, toServer) < FrameLen
    <3>1. PICK n \in 1..Made :
            /\ Carries(server.got, toServer, n) /\ Total(server.got, toServer) <= FrameLen
            /\ \A m \in Carried : m < n
            /\ fate[n] # "rejected"
            /\ fate[n] = "unsent" \/ (n = Made /\ client.at = "sending") =>
                 Total(server.got, toServer) < FrameLen
      BY <2>2 DEF WireInv, ToServer
    <3>2. CASE n = Made
      BY <1>2, <2>2, <3>1, <3>2
    <3>3. CASE n # Made
      <4>1. fate'[n] = fate[n]
        BY <1>0, <1>2, <3>3
      <4>2. QED
        BY <3>1, <4>1
    <3>4. QED
      BY <3>2, <3>3
  <2>3. QED
    BY <1>1, <1>3, <1>4, <2>1, <2>2 DEF ToServer
<1>10. InStep'
  <2>1. ~connected => toServer = << >>
    BY DEF WireInv, InStep
  <2>2. QED
    BY <1>1, <1>3, <1>4, <2>1 DEF InStep
<1>11. QED
  BY <1>5, <1>6, <1>7, <1>8, <1>9, <1>10 DEF WireInv

LEMMA ClientSendFailsInv ==
  ASSUME WireInv, ClientSendFails
  PROVE  WireInv'
<1>1. client.at = "sending" /\ ~connected /\ Returns("unsent") /\ UNCHANGED <<stream, theServer>>
  BY DEF ClientSendFails
<1>2. toClient = << >> /\ Made \notin Carried
  BY <1>1 DEF WireInv, ToClient, OneCall
<1>3. "unsent" \in Fates \ {"unmade", "waiting"}
  BY DEF Fates
<1>4. QED
  BY <1>1, <1>2, <1>3, ReturnsInv

LEMMA ClientReceiveFailsInv ==
  ASSUME WireInv, ClientReceiveFails
  PROVE  WireInv'
<1>1. /\ client.at = "receiving" /\ toClient = << >> /\ ~connected
      /\ Returns("unknown") /\ UNCHANGED <<stream, theServer>>
  BY DEF ClientReceiveFails
<1>2. "unknown" \in Fates \ {"unmade", "waiting"}
  BY DEF Fates
<1>3. QED
  BY <1>1, <1>2, ReturnsInv

(* The answer that is complete is the answer to the call just made, and    *)
(* nothing is left on the stream.                                          *)
LEMMA AnswerComplete ==
  ASSUME WireInv, client.at = "receiving", Whole(client.got)
  PROVE  /\ Decodes(client.got) /\ client.got[1][1] = Made
         /\ toClient = << >> /\ server.got = << >>
         /\ kind[Made] = "request" => Made \in Carried
         /\ connected => Awaiting /\ toServer = << >>
<1>0. /\ Carries(client.got, toClient, Made) /\ Total(client.got, toClient) <= FrameLen
      /\ Total(client.got, toClient) > 0 =>
           server.got = << >> /\ (kind[Made] = "request" => Made \in Carried)
  BY DEF WireInv, ToClient
<1>1. /\ client.got \in Stream /\ toClient \in Stream /\ Made \in Nat
      /\ Len(client.got) \in Nat /\ Len(toClient) \in Nat /\ FrameLen \in Nat /\ FrameLen > 0
  BY Shapes
<1>2. Len(client.got) <= FrameLen
  BY <1>0, <1>1 DEF Total
<1>3. Len(client.got) = FrameLen
  BY <1>1, <1>2, Wants
<1>4. Len(toClient) = 0 /\ Total(client.got, toClient) = FrameLen
  BY <1>0, <1>1, <1>3 DEF Total
<1>5. toClient = << >> /\ client.got # << >>
  BY <1>1, <1>3, <1>4, Streams
<1>6. Decodes(client.got) /\ client.got[1][1] = Made
  BY <1>0, <1>1, <1>3, <1>5, FrameDecodes
<1>7. connected => Awaiting /\ toServer = << >>
  <2>1. SUFFICES ASSUME connected PROVE Awaiting /\ toServer = << >>
    OBVIOUS
  <2>2. ~Asked
    BY <1>5 DEF Asked
  <2>3. ~BeingAnswered
    BY <1>1, <1>4, Shapes DEF BeingAnswered
  <2>4. Answered
    BY <2>1, <2>2, <2>3 DEF WireInv, InStep
  <2>5. QED
    BY <2>4 DEF Answered
<1>8. QED
  BY <1>0, <1>1, <1>4, <1>5, <1>6, <1>7

LEMMA ClientTakesAnswerInv ==
  ASSUME WireInv, ClientTakesAnswer
  PROVE  WireInv'
<1> DEFINE what == IF kind[Made] = "request" THEN "answered" ELSE "rejected"
<1>1. /\ client.at = "receiving" /\ Whole(client.got) /\ UNCHANGED <<stream, theServer>>
  BY DEF ClientTakesAnswer
<1>2. Returns(what)
  BY <1>1, AnswerComplete DEF ClientTakesAnswer
<1>3. what \in Fates \ {"unmade", "waiting"} /\ what # "unsent"
  BY DEF Fates
<1>4. what = "rejected" => Made \notin Carried
  BY DEF WireInv, Fair
<1> HIDE DEF what
<1>5. QED
  BY <1>1, <1>2, <1>3, <1>4, AnswerComplete, ReturnsInv

LEMMA ClientReceivesInv ==
  ASSUME WireInv, NEW k \in 1..FrameLen, ClientReceives(k)
  PROVE  WireInv'
<1>0. /\ Carries(client.got, toClient, Made) /\ Total(client.got, toClient) <= FrameLen
      /\ client.at = "receiving"
  BY DEF ClientReceives, WireInv, ToClient
<1>1. /\ client.got \in Stream /\ toClient \in Stream /\ Made \in Nat
      /\ Len(client.got) \in Nat /\ Len(toClient) \in Nat /\ FrameLen \in Nat
  BY Shapes
<1>2. k \in 1..Len(toClient) /\ Len(client.got) <= FrameLen
  <2>1. Len(client.got) <= FrameLen
    BY <1>0, <1>1 DEF Total
  <2>2. QED
    BY <1>1, <2>1, Wants DEF ClientReceives
<1> DEFINE got == client.got \o SubSeq(toClient, 1, k)
<1>3. /\ client' = [client EXCEPT !.got = got]
      /\ toClient' = SubSeq(toClient, k + 1, Len(toClient))
      /\ UNCHANGED <<kind, fate, toServer, connected, server, running, done>>
  BY DEF ClientReceives, theServer
<1>4. /\ got \in Stream /\ toClient' \in Stream
      /\ Len(got) = Len(client.got) + k /\ Len(toClient') = Len(toClient) - k
      /\ Carries(got, toClient', Made)
  BY <1>0, <1>1, <1>2, <1>3, Read
<1> HIDE DEF got
<1>5. Total(got, toClient') = Total(client.got, toClient)
  BY <1>1, <1>2, <1>4 DEF Total
<1>6. /\ client'.at = "receiving" /\ client'.sent = client.sent /\ client'.got = got
      /\ client' \in [at : {"idle", "sending", "receiving"}, sent : 0..FrameLen, got : Stream]
  BY <1>0, <1>3, <1>4 DEF WireInv, WireTypes
<1>7. Carried' = Carried /\ Made' = Made /\ (Awaiting' <=> Awaiting)
  BY <1>3 DEF Carried, Made, Awaiting
<1>8. WireTypes'
  BY <1>3, <1>4, <1>6, <1>7 DEF WireInv, WireTypes
<1>9. OneCall'
  BY <1>0, <1>3, <1>6, <1>7 DEF WireInv, OneCall
<1>10. Fair'
  BY <1>3, <1>7 DEF WireInv, Fair
<1>11. ToClient'
  BY <1>0, <1>3, <1>4, <1>5, <1>6, <1>7 DEF WireInv, ToClient
<1>12. ToServer'
  BY <1>0, <1>3, <1>6, <1>7 DEF WireInv, ToServer
<1>13. InStep'
  <2>1. ~connected' => toServer' = << >>
    BY <1>3 DEF WireInv, InStep
  <2>2. ASSUME connected PROVE Asked' \/ BeingAnswered' \/ Answered'
    <3>1. ~Asked
      BY <1>1, <1>2, EmptyStream DEF Asked
    <3>2. BeingAnswered \/ Answered
      BY <1>0, <2>2, <3>1 DEF WireInv, InStep
    <3>3. CASE BeingAnswered
      BY <1>3, <1>5, <1>6, <1>7, <3>3 DEF BeingAnswered
    <3>4. CASE Answered
      BY <1>3, <1>5, <1>6, <1>7, <3>4 DEF Answered
    <3>5. QED
      BY <3>2, <3>3, <3>4
  <2>3. QED
    BY <1>3, <1>6, <2>1, <2>2 DEF InStep
<1>14. QED
  BY <1>8, <1>9, <1>10, <1>11, <1>12, <1>13 DEF WireInv

(* What is on the stream is lost. *)
LEMMA Cut ==
  ASSUME NEW got \in Stream, NEW channel \in Stream
  PROVE  /\ Total(got, << >>) \in Nat /\ Total(got, << >>) <= Total(got, channel)
         /\ \A n : Carries(got, channel, n) => Carries(got, << >>, n)
<1>1. Len(got) \in Nat /\ Len(channel) \in Nat /\ Len(<< >>) = 0
  BY Streams, EmptyStream
<1>2. QED
  BY <1>1 DEF Total, Carries

(* The connection is gone: the caller keeps what it has, and perhaps what  *)
(* was on its way; so does the handler, or it is gone too.                 *)
LEMMA GoneInv ==
  ASSUME WireInv, UNCHANGED <<theClient, done>>, ~connected', toServer' = << >>,
         connected' \in BOOLEAN, running' \in BOOLEAN,
         toClient' \in {toClient, << >>}, server' \in {server, Gone}
  PROVE  WireInv'
<1>0. UNCHANGED <<kind, fate, client, done>>
  BY DEF theClient
<1>1. Carried' = Carried /\ Made' = Made
  BY <1>0 DEF Carried, Made
<1>2. /\ Gone.got = << >> /\ Gone.at = "closed"
      /\ Gone \in [at : {"receiving", "answering", "looping", "closed"},
                   answers : Nat, sent : 0..FrameLen, got : Stream]
  BY EmptyStream, LengthsAssumption DEF Gone, Receiving
<1>3. /\ server'.got \in {server.got, << >>}
      /\ server'.got # << >> => server' = server
  BY <1>2
<1>4. WireTypes'
  BY <1>0, <1>1, <1>2, EmptyStream DEF WireInv, WireTypes
<1>5. OneCall'
  BY <1>0, <1>1 DEF WireInv, OneCall
<1>6. Fair'
  BY <1>0, <1>1 DEF WireInv, Fair
<1>7. ToClient'
  <2>1. client.at # "receiving" => toClient' = << >>
    BY DEF WireInv, ToClient
  <2>2. ASSUME client.at = "receiving"
        PROVE  /\ Carries(client.got, toClient', Made)
               /\ Total(client.got, toClient') <= FrameLen
               /\ Total(client.got, toClient') > 0 =>
                    server'.got = << >> /\ (kind[Made] = "request" => Made \in Carried)
    <3>1. /\ Carries(client.got, toClient, Made)
          /\ Total(client.got, toClient) <= FrameLen
          /\ Total(client.got, toClient) > 0 =>
               server.got = << >> /\ (kind[Made] = "request" => Made \in Carried)
      BY <2>2 DEF WireInv, ToClient
    <3>2. /\ Total(client.got, << >>) \in Nat /\ Total(client.got, toClient) \in Nat
          /\ Total(client.got, << >>) <= Total(client.got, toClient) /\ FrameLen \in Nat
          /\ Carries(client.got, << >>, Made)
      BY <3>1, Cut, Shapes DEF Total
    <3>3. Carries(client.got, toClient', Made) /\ Total(client.got, toClient') <= FrameLen
      BY <3>1, <3>2
    <3>4. Total(client.got, toClient') > 0 => Total(client.got, toClient) > 0
      BY <3>2
    <3>5. QED
      BY <1>3, <3>1, <3>3, <3>4
  <2>3. QED
    BY <1>0, <1>1, <2>1, <2>2 DEF ToClient
<1>8. ToServer'
  <2>1. server'.at # "receiving" => server'.got = << >>
    BY <1>2 DEF WireInv, ToServer
  <2>2. ASSUME server'.got # << >>
        PROVE  \E n \in 1..Made :
                 /\ Carries(server'.got, << >>, n) /\ Total(server'.got, << >>) <= FrameLen
                 /\ \A m \in Carried : m < n
                 /\ fate[n] # "rejected"
                 /\ fate[n] = "unsent" \/ (n = Made /\ client.at = "sending") =>
                      Total(server'.got, << >>) < FrameLen
    <3>1. server' = server /\ server.got # << >>
      BY <1>3, <2>2
    <3>2. PICK n \in 1..Made :
            /\ Carries(server.got, toServer, n) /\ Total(server.got, toServer) <= FrameLen
            /\ \A m \in Carried : m < n
            /\ fate[n] # "rejected"
            /\ fate[n] = "unsent" \/ (n = Made /\ client.at = "sending") =>
                 Total(server.got, toServer) < FrameLen
      BY <3>1 DEF WireInv, ToServer
    <3>3. /\ Total(server.got, << >>) \in Nat /\ Total(server.got, toServer) \in Nat
          /\ Total(server.got, << >>) <= Total(server.got, toServer) /\ FrameLen \in Nat
          /\ Carries(server.got, << >>, n)
      BY <3>2, Cut, Shapes DEF Total
    <3>4. Total(server.got, << >>) <= FrameLen
      BY <3>2, <3>3
    <3>5. Total(server.got, toServer) < FrameLen => Total(server.got, << >>) < FrameLen
      BY <3>3
    <3>6. QED
      BY <3>1, <3>2, <3>3, <3>4, <3>5
  <2>3. QED
    BY <1>0, <1>1, <2>1, <2>2 DEF ToServer
<1>9. InStep'
  BY DEF InStep
<1>10. QED
  BY <1>4, <1>5, <1>6, <1>7, <1>8, <1>9 DEF WireInv

LEMMA ClosesInv ==
  ASSUME WireInv, Closes
  PROVE  WireInv'
<1>1. /\ UNCHANGED <<theClient, done>> /\ ~connected' /\ toServer' = << >>
      /\ connected' \in BOOLEAN /\ running' = running
      /\ toClient' \in {toClient, << >>} /\ server' = Gone
  BY DEF Closes
<1>2. running' \in BOOLEAN
  BY <1>1 DEF WireInv, WireTypes
<1>3. QED
  BY <1>1, <1>2, GoneInv

LEMMA ResetInv ==
  ASSUME WireInv, Reset
  PROVE  WireInv'
<1>1. /\ UNCHANGED <<theClient, done>> /\ ~connected' /\ toServer' = << >>
      /\ connected' \in BOOLEAN /\ running' = running
      /\ toClient' = << >> /\ server' = server
  BY DEF Reset, theServer
<1>2. running' \in BOOLEAN
  BY <1>1 DEF WireInv, WireTypes
<1>3. QED
  BY <1>1, <1>2, GoneInv

LEMMA ShutdownInv ==
  ASSUME WireInv, Shutdown
  PROVE  WireInv'
<1>1. /\ UNCHANGED <<kind, fate, client, server, toServer, toClient, connected, done>>
      /\ running' \in BOOLEAN
  BY DEF Shutdown, theClient, stream
<1>2. Carried' = Carried /\ Made' = Made
  BY <1>1 DEF Carried, Made
<1>3. WireTypes'
  BY <1>1, <1>2 DEF WireInv, WireTypes
<1>4. OneCall' /\ Fair'
  BY <1>1, <1>2 DEF WireInv, OneCall, Fair
<1>5. ToClient' /\ ToServer'
  BY <1>1, <1>2 DEF WireInv, ToClient, ToServer
<1>6. InStep'
  BY <1>1, <1>2 DEF WireInv, InStep, Asked, BeingAnswered, Answered, Awaiting
<1>7. QED
  BY <1>3, <1>4, <1>5, <1>6 DEF WireInv

LEMMA ServerLoopsInv ==
  ASSUME WireInv, ServerLoops
  PROVE  WireInv'
<1>1. /\ server.at = "looping" /\ server' = Receiving /\ server.got = << >>
      /\ UNCHANGED <<kind, fate, client, toServer, toClient, connected, running, done>>
  BY DEF ServerLoops, theClient, stream, WireInv, ToServer
<1>2. /\ server'.at = "receiving" /\ server'.got = server.got
      /\ Receiving \in [at : {"receiving", "answering", "looping", "closed"},
                        answers : Nat, sent : 0..FrameLen, got : Stream]
  BY <1>1, EmptyStream, LengthsAssumption DEF Receiving
<1>3. Carried' = Carried /\ Made' = Made /\ Awaiting' /\ Awaiting
  BY <1>1, <1>2 DEF Carried, Made, Awaiting
<1>4. WireTypes'
  BY <1>1, <1>2, <1>3 DEF WireInv, WireTypes
<1>5. OneCall' /\ Fair'
  BY <1>1, <1>3 DEF WireInv, OneCall, Fair
<1>6. ToClient' /\ ToServer'
  BY <1>1, <1>2, <1>3 DEF WireInv, ToClient, ToServer
<1>7. InStep'
  <2>1. connected /\ client.at = "receiving" => Asked \/ Answered
    BY <1>1 DEF WireInv, InStep, BeingAnswered
  <2>2. Asked => Asked'
    BY <1>1, <1>2, <1>3 DEF Asked
  <2>3. Answered => Answered'
    BY <1>1, <1>2, <1>3 DEF Answered
  <2>4. QED
    BY <1>1, <1>2, <1>3, <2>1, <2>2, <2>3 DEF WireInv, InStep
<1>8. QED
  BY <1>4, <1>5, <1>6, <1>7 DEF WireInv

(* Where bytes for the handler can be. *)
LEMMA BytesComing ==
  ASSUME WireInv, toServer # << >>
  PROVE  /\ connected /\ Awaiting /\ Made > 0 /\ fate[Made] = "waiting"
         /\ \A m \in Carried : m < Made
         /\ Carries(server.got, toServer, Made)
         /\ Total(server.got, toServer) <= FrameLen
         /\ \/ /\ client.at = "sending" /\ Total(server.got, toServer) = client.sent
               /\ client.sent < FrameLen
            \/ client.at = "receiving" /\ Asked
<1>0. /\ client.sent \in Nat /\ client.sent <= FrameLen /\ Made \in Nat /\ FrameLen \in Nat
      /\ Carried \subseteq 1..Made
  BY Shapes
<1>1. connected
  BY DEF WireInv, InStep
<1>2. client.at \in {"sending", "receiving"}
  BY <1>1 DEF WireInv, WireTypes, InStep
<1>3. Made > 0 /\ fate[Made] = "waiting"
  BY <1>2 DEF WireInv, OneCall
<1>4. CASE client.at = "sending"
  <2>1. /\ Awaiting /\ Made \notin Carried /\ client.sent < FrameLen
        /\ Carries(server.got, toServer, Made) /\ Total(server.got, toServer) = client.sent
    BY <1>1, <1>4 DEF WireInv, InStep, OneCall
  <2>2. \A m \in Carried : m < Made
    BY <1>0, <2>1
  <2>3. QED
    BY <1>0, <1>1, <1>3, <1>4, <2>1, <2>2
<1>5. CASE client.at = "receiving"
  <2>1. Asked
    BY <1>1, <1>5 DEF WireInv, InStep, BeingAnswered, Answered
  <2>2. \A m \in Carried : m < Made
    BY <1>0, <2>1 DEF Asked
  <2>3. QED
    BY <1>0, <1>1, <1>3, <1>5, <2>1, <2>2 DEF Asked
<1>6. QED
  BY <1>2, <1>4, <1>5

(* A handler that reads a frame holds less than one. *)
LEMMA FrameBegun ==
  ASSUME WireInv
  PROVE  Len(server.got) <= FrameLen
<1>0. /\ server.got \in Stream /\ toServer \in Stream /\ FrameLen \in Nat
      /\ Len(server.got) \in Nat /\ Len(toServer) \in Nat
  BY Shapes
<1>1. CASE server.got = << >>
  BY <1>0, <1>1, EmptyStream
<1>2. CASE server.got # << >>
  <2>1. Total(server.got, toServer) <= FrameLen
    BY <1>2 DEF WireInv, ToServer
  <2>2. QED
    BY <1>0, <2>1 DEF Total
<1>3. QED
  BY <1>1, <1>2

LEMMA ServerReceivesInv ==
  ASSUME WireInv, NEW k \in 1..FrameLen, ServerReceives(k)
  PROVE  WireInv'
<1>1. /\ server.got \in Stream /\ toServer \in Stream /\ Made \in Nat
      /\ Len(server.got) \in Nat /\ Len(toServer) \in Nat /\ FrameLen \in Nat
  BY Shapes
<1>2. k \in 1..Len(toServer) /\ server.at = "receiving"
  BY <1>1, FrameBegun, Wants DEF ServerReceives
<1>3. toServer # << >>
  BY <1>2, EmptyStream
<1> DEFINE got == server.got \o SubSeq(toServer, 1, k)
<1>4. /\ server' = [server EXCEPT !.got = got]
      /\ toServer' = SubSeq(toServer, k + 1, Len(toServer))
      /\ UNCHANGED <<kind, fate, client, toClient, connected, running, done>>
  BY DEF ServerReceives, theClient
<1>5. /\ got \in Stream /\ toServer' \in Stream
      /\ Len(got) = Len(server.got) + k /\ Len(toServer') = Len(toServer) - k
      /\ Carries(got, toServer', Made)
  BY <1>1, <1>2, <1>3, <1>4, BytesComing, Read
<1> HIDE DEF got
<1>6. Total(got, toServer') = Total(server.got, toServer)
  BY <1>1, <1>2, <1>5 DEF Total
<1>7. /\ server'.at = "receiving" /\ server'.got = got
      /\ server' \in [at : {"receiving", "answering", "looping", "closed"},
                      answers : Nat, sent : 0..FrameLen, got : Stream]
  BY <1>2, <1>4, <1>5 DEF WireInv, WireTypes
<1>8. Carried' = Carried /\ Made' = Made /\ Awaiting'
  BY <1>4, <1>7 DEF Carried, Made, Awaiting
<1>9. WireTypes'
  BY <1>4, <1>5, <1>7, <1>8 DEF WireInv, WireTypes
<1>10. OneCall' /\ Fair'
  BY <1>4, <1>8 DEF WireInv, OneCall, Fair
<1>11. ToClient'
  <2>1. client.at = "receiving" => client.got = << >> /\ toClient = << >>
    BY <1>3, BytesComing DEF Asked
  <2>2. QED
    BY <1>1, <1>4, <1>8, <2>1, EmptyStream DEF WireInv, ToClient, Total, Carries
<1>12. ToServer'
  <2>1. Made \in 1..Made
    BY <1>1, <1>3, BytesComing
  <2>2. /\ fate[Made] = "waiting" /\ Total(got, toServer') <= FrameLen
        /\ client.at = "sending" => Total(got, toServer') < FrameLen
    BY <1>3, <1>6, BytesComing
  <2>3. \A m \in Carried : m < Made
    BY <1>3, BytesComing
  <2>4. QED
    BY <1>4, <1>5, <1>7, <1>8, <2>1, <2>2, <2>3 DEF ToServer
<1>13. InStep'
  <2>1. CASE client.at = "sending"
    BY <1>3, <1>4, <1>5, <1>6, <1>7, <1>8, <2>1, BytesComing DEF InStep
  <2>2. CASE client.at = "receiving"
    <3>1. Asked'
      BY <1>3, <1>4, <1>5, <1>6, <1>7, <1>8, <2>2, BytesComing DEF Asked
    <3>2. QED
      BY <1>3, <1>4, <2>2, <3>1, BytesComing DEF InStep
  <2>3. QED
    BY <1>3, <2>1, <2>2, BytesComing
<1>14. QED
  BY <1>9, <1>10, <1>11, <1>12, <1>13 DEF WireInv

LEMMA ServerSendsInv ==
  ASSUME WireInv, NEW k \in 1..FrameLen, ServerSends(k)
  PROVE  WireInv'
<1> DEFINE sent == server.sent + k
<1>0. /\ server.at = "answering" /\ connected /\ client.at = "receiving" /\ BeingAnswered
  <2>1. server.at = "answering" /\ connected
    BY DEF ServerSends
  <2>2. client.at = "receiving"
    BY <2>1 DEF WireInv, WireTypes, InStep, Awaiting
  <2>3. BeingAnswered
    BY <2>1, <2>2 DEF WireInv, InStep, Asked, Answered, Awaiting
  <2>4. QED
    BY <2>1, <2>2, <2>3
<1>1. /\ k \in Nat \ {0} /\ server.sent \in Nat /\ sent \in Nat /\ sent <= FrameLen
      /\ FrameLen \in Nat /\ Made \in Nat
  <2>1. k \in Portions(server.sent, toClient)
    BY DEF ServerSends
  <2>2. k \in 1..(FrameLen - server.sent)
    BY <2>1 DEF Portions
  <2>3. QED
    BY <2>2, Shapes
<1>2. /\ toClient' = toClient \o Bytes(Made, server.sent + 1, sent)
      /\ server' = IF sent = FrameLen THEN [Receiving EXCEPT !.at = "looping"]
                   ELSE [server EXCEPT !.sent = sent]
      /\ UNCHANGED <<kind, fate, client, toServer, connected, running, done>>
  BY <1>0 DEF ServerSends, theClient, BeingAnswered
<1>3. /\ Carries(client.got, toClient, Made) /\ Total(client.got, toClient) = server.sent
      /\ kind[Made] = "request" => Made \in Carried
      /\ server.got = << >> /\ toServer = << >>
  BY <1>0 DEF WireInv, ToClient, BeingAnswered
<1>4. /\ toClient' \in Stream
      /\ Carries(client.got, toClient', Made) /\ Total(client.got, toClient') = sent
  <2>1. client.got \in Stream /\ toClient \in Stream
    BY Shapes
  <2>2. PICK m \in Nat : m = server.sent
    BY <1>1
  <2>3. Total(client.got, toClient) = m
    BY <1>3, <2>2
  <2>4. /\ toClient \o Bytes(Made, m + 1, m + k) \in Stream
        /\ Total(client.got, toClient \o Bytes(Made, m + 1, m + k)) = m + k
        /\ Carries(client.got, toClient, Made) =>
             Carries(client.got, toClient \o Bytes(Made, m + 1, m + k), Made)
    BY <1>1, <2>1, <2>3, Put
  <2>5. QED
    BY <1>2, <1>3, <2>2, <2>4
<1> HIDE DEF sent
<1>5. CASE sent = FrameLen
  <2>1. server' = [Receiving EXCEPT !.at = "looping"]
    BY <1>2, <1>5
  <2>2. /\ server'.at = "looping" /\ server'.got = << >>
        /\ server' \in [at : {"receiving", "answering", "looping", "closed"},
                        answers : Nat, sent : 0..FrameLen, got : Stream]
    BY <1>1, <2>1, EmptyStream DEF Receiving
  <2>3. Carried' = Carried /\ Made' = Made /\ Awaiting'
    BY <1>2, <2>2 DEF Carried, Made, Awaiting
  <2>4. WireTypes'
    BY <1>2, <1>4, <2>2, <2>3 DEF WireInv, WireTypes
  <2>5. OneCall' /\ Fair'
    BY <1>2, <2>3 DEF WireInv, OneCall, Fair
  <2>6. ToClient'
    BY <1>0, <1>1, <1>2, <1>3, <1>4, <2>2, <2>3 DEF ToClient
  <2>7. ToServer'
    BY <2>2 DEF ToServer
  <2>8. Answered'
    BY <1>2, <1>3, <1>4, <1>5, <2>2, <2>3 DEF Answered
  <2>9. InStep'
    BY <1>0, <1>2, <2>8 DEF InStep
  <2>10. QED
    BY <2>4, <2>5, <2>6, <2>7, <2>9 DEF WireInv
<1>6. CASE sent # FrameLen
  <2>0. server \in [at : {"receiving", "answering", "looping", "closed"},
                    answers : Nat, sent : 0..FrameLen, got : Stream]
    BY DEF WireInv, WireTypes
  <2>1. server' = [at |-> server.at, answers |-> server.answers, sent |-> sent, got |-> server.got]
    BY <1>2, <1>6, <2>0
  <2>2. /\ server'.at = "answering" /\ server'.got = << >> /\ server'.sent = sent
        /\ server'.answers = server.answers
        /\ server' \in [at : {"receiving", "answering", "looping", "closed"},
                        answers : Nat, sent : 0..FrameLen, got : Stream]
    <3>1. sent \in 0..FrameLen
      BY <1>1
    <3>2. QED
      BY <1>0, <1>3, <2>0, <2>1, <3>1
  <2>3. Carried' = Carried /\ Made' = Made
    BY <1>2 DEF Carried, Made
  <2>4. WireTypes'
    BY <1>2, <1>4, <2>2, <2>3 DEF WireInv, WireTypes
  <2>5. OneCall' /\ Fair'
    BY <1>2, <2>3 DEF WireInv, OneCall, Fair
  <2>6. ToClient'
    BY <1>0, <1>1, <1>2, <1>3, <1>4, <2>2, <2>3 DEF ToClient
  <2>7. ToServer'
    BY <2>2 DEF ToServer
  <2>8. BeingAnswered'
    BY <1>0, <1>1, <1>2, <1>3, <1>4, <1>6, <2>2, <2>3 DEF BeingAnswered
  <2>9. InStep'
    BY <1>0, <1>2, <2>8 DEF InStep
  <2>10. QED
    BY <2>4, <2>5, <2>6, <2>7, <2>9 DEF WireInv
<1>7. QED
  BY <1>5, <1>6

(* A frame that is whole is one of a call that was sent and has not been   *)
(* carried out; with the connection up, it is the call just made.          *)
LEMMA FrameWhole ==
  ASSUME WireInv, server.at = "receiving", Whole(server.got)
  PROVE  \E n \in 1..Made :
           /\ server.got[1][1] = n /\ Decodes(server.got)
           /\ \A m \in Carried : m < n
           /\ fate[n] \notin {"unsent", "rejected", "unmade"}
           /\ client.at = "sending" => n # Made
           /\ connected => n = Made /\ client.at = "receiving" /\ Asked /\ toServer = << >>
<1>1. /\ server.got \in Stream /\ toServer \in Stream /\ Made \in Nat /\ Made <= Calls
      /\ Len(server.got) \in Nat /\ Len(toServer) \in Nat /\ FrameLen \in Nat /\ FrameLen > 0
      /\ client.sent \in Nat /\ Calls \in Nat
  BY Shapes
<1>2. Len(server.got) = FrameLen
  BY <1>1, FrameBegun, Wants
<1>3. server.got # << >>
  BY <1>1, <1>2, EmptyStream
<1>4. PICK n \in 1..Made :
        /\ Carries(server.got, toServer, n) /\ Total(server.got, toServer) <= FrameLen
        /\ \A m \in Carried : m < n
        /\ fate[n] # "rejected"
        /\ fate[n] = "unsent" \/ (n = Made /\ client.at = "sending") =>
             Total(server.got, toServer) < FrameLen
  BY <1>3 DEF WireInv, ToServer
<1>5. Total(server.got, toServer) = FrameLen /\ Len(toServer) = 0
  BY <1>1, <1>2, <1>4 DEF Total
<1>6. toServer = << >>
  BY <1>1, <1>5, Streams
<1>7. server.got[1][1] = n /\ Decodes(server.got)
  BY <1>1, <1>2, <1>3, <1>4, FrameDecodes
<1>8. fate[n] \notin {"unsent", "rejected", "unmade"} /\ (client.at = "sending" => n # Made)
  <2>1. ~(Total(server.got, toServer) < FrameLen)
    BY <1>1, <1>5
  <2>2. n \in 1..Calls /\ ~(n > Made)
    BY <1>1
  <2>3. fate[n] # "unmade"
    BY <2>2 DEF WireInv, OneCall
  <2>4. QED
    BY <1>4, <2>1, <2>3
<1>9. ASSUME connected PROVE n = Made /\ client.at = "receiving" /\ Asked
  <2>1. client.at = "sending" =>
          Total(server.got, toServer) = client.sent /\ client.sent < FrameLen
    BY <1>9 DEF WireInv, InStep, OneCall
  <2>2. client.at # "sending"
    BY <1>1, <1>5, <2>1
  <2>3. client.at = "receiving"
    BY <1>3, <1>9, <2>2 DEF WireInv, WireTypes, InStep
  <2>4. Asked
    BY <1>3, <1>9, <2>3 DEF WireInv, InStep, BeingAnswered, Answered
  <2>5. Carries(server.got, toServer, Made)
    BY <2>4 DEF Asked
  <2>6. server.got[1][1] = Made
    BY <1>1, <1>3, <2>5, FrameDecodes
  <2>7. QED
    BY <1>7, <2>3, <2>4, <2>6
<1>10. QED
  BY <1>4, <1>6, <1>7, <1>8, <1>9

LEMMA ServerDecodesInv ==
  ASSUME WireInv, ServerDecodes
  PROVE  WireInv'
<1>0. server.at = "receiving" /\ Whole(server.got)
  BY DEF ServerDecodes
<1>1. PICK n \in 1..Made :
        /\ server.got[1][1] = n /\ Decodes(server.got)
        /\ \A m \in Carried : m < n
        /\ fate[n] \notin {"unsent", "rejected", "unmade"}
        /\ client.at = "sending" => n # Made
        /\ connected => n = Made /\ client.at = "receiving" /\ Asked /\ toServer = << >>
  BY <1>0, FrameWhole
<1>2. /\ done' = IF kind[n] = "request" THEN Append(done, n) ELSE done
      /\ server' = [Receiving EXCEPT !.at = "answering", !.answers = n]
      /\ UNCHANGED <<kind, fate, client, toServer, toClient, connected, running>>
  BY <1>1 DEF ServerDecodes, theClient, stream
<1>3. /\ Made \in Nat /\ n \in Nat /\ FrameLen \in Nat /\ FrameLen > 0
  BY Shapes
<1>4. done \in Seq(Nat) /\ Len(done) \in Nat
  BY LenProperties DEF WireInv, WireTypes
<1>5. /\ done' \in Seq(Nat)
      /\ Carried' = IF kind[n] = "request" THEN Carried \cup {n} ELSE Carried
  <2>1. CASE kind[n] = "request"
    <3>1. done' = Append(done, n)
      BY <1>2, <2>1
    <3>2. /\ Append(done, n) \in Seq(Nat) /\ Len(Append(done, n)) = Len(done) + 1
          /\ \A i \in 1..Len(done) : Append(done, n)[i] = done[i]
          /\ Append(done, n)[Len(done) + 1] = n
      BY <1>3, <1>4, AppendProperties
    <3>3. Carried' = Carried \cup {n}
      <4>1. Carried' = {done'[i] : i \in 1..(Len(done) + 1)}
        BY <3>1, <3>2 DEF Carried
      <4>2. 1..(Len(done) + 1) = 1..Len(done) \cup {Len(done) + 1}
        BY <1>4
      <4>3. QED
        BY <3>1, <3>2, <4>1, <4>2 DEF Carried
    <3>4. QED
      BY <2>1, <3>1, <3>2, <3>3
  <2>2. CASE kind[n] # "request"
    BY <1>2, <1>4, <2>2 DEF Carried
  <2>3. QED
    BY <2>1, <2>2
<1>6. /\ server'.at = "answering" /\ server'.answers = n /\ server'.got = << >> /\ server'.sent = 0
      /\ server' \in [at : {"receiving", "answering", "looping", "closed"},
                      answers : Nat, sent : 0..FrameLen, got : Stream]
  <2>1. server' = [at |-> "answering", answers |-> n, sent |-> 0, got |-> << >>]
    BY <1>2 DEF Receiving
  <2>2. QED
    BY <1>3, <2>1, EmptyStream
<1>7. Made' = Made /\ Carried \subseteq Carried'
  BY <1>2, <1>5 DEF Made
<1>8. WireTypes'
  BY <1>2, <1>5, <1>6, <1>7 DEF WireInv, WireTypes
<1>9. OneCall'
  <2>1. client.at = "sending" => Made \notin Carried'
    BY <1>1, <1>5 DEF WireInv, OneCall
  <2>2. QED
    BY <1>2, <1>7, <2>1 DEF WireInv, OneCall
<1>10. Fair'
  <2> SUFFICES ASSUME NEW m \in Carried'
               PROVE  /\ m \in 1..Made /\ kind[m] = "request"
                      /\ fate[m] \notin {"unsent", "rejected"}
    BY <1>2, <1>7 DEF Fair
  <2>1. CASE m \in Carried
    BY <2>1 DEF WireInv, Fair
  <2>2. CASE m \notin Carried
    BY <1>1, <1>5, <2>2
  <2>3. QED
    BY <2>1, <2>2
<1>11. ToClient'
  BY <1>2, <1>6, <1>7 DEF WireInv, ToClient
<1>12. ToServer'
  BY <1>6 DEF ToServer
<1>13. InStep'
  <2>1. ASSUME connected PROVE BeingAnswered'
    <3>1. n = Made /\ toServer = << >> /\ client.got = << >> /\ toClient = << >>
      BY <1>1, <2>1 DEF Asked
    <3>2. Total(client.got, toClient) = 0
      BY <3>1, EmptyStream DEF Total
    <3>3. kind[Made] = "request" => Made \in Carried'
      BY <1>5, <3>1
    <3>4. QED
      BY <1>2, <1>3, <1>6, <1>7, <3>1, <3>2, <3>3 DEF BeingAnswered
  <2>2. ~connected => toServer = << >>
    BY DEF WireInv, InStep
  <2>3. QED
    BY <1>1, <1>2, <2>1, <2>2 DEF InStep
<1>14. QED
  BY <1>8, <1>9, <1>10, <1>11, <1>12, <1>13 DEF WireInv

LEMMA NextWireInv == WireInv /\ [Next]_vars => WireInv'
<1> SUFFICES ASSUME WireInv, [Next]_vars PROVE WireInv'
  OBVIOUS
<1>1. CASE UNCHANGED vars
  <2>1. UNCHANGED <<kind, fate, client, server, toServer, toClient, connected, running, done>>
    BY <1>1 DEF vars
  <2>2. Carried' = Carried /\ Made' = Made
    BY <2>1 DEF Carried, Made
  <2>3. WireTypes' /\ OneCall' /\ Fair' /\ ToClient' /\ ToServer'
    BY <2>1, <2>2 DEF WireInv, WireTypes, OneCall, Fair, ToClient, ToServer
  <2>4. InStep'
    BY <2>1, <2>2 DEF WireInv, InStep, Asked, BeingAnswered, Answered, Awaiting
  <2>5. QED
    BY <2>3, <2>4 DEF WireInv
<1>2. ASSUME NEW k \in Kinds, Request(k) PROVE WireInv'
  BY <1>2, RequestInv
<1>3. CASE ClientProceeds
  BY <1>3, ClientSendsInv, ClientReceivesInv, ClientSendFailsInv, ClientTakesAnswerInv,
     ClientReceiveFailsInv
  DEF ClientProceeds
<1>4. CASE ServerProceeds
  BY <1>4, ServerReceivesInv, ServerSendsInv, ServerDecodesInv, ServerLoopsInv, ClosesInv
  DEF ServerProceeds, ServerRefusesFrame, ServerReceiveFails, ServerSendFails, ServerLeaves
<1>5. CASE Shutdown \/ Reset
  BY <1>5, ShutdownInv, ResetInv
<1>6. QED
  BY <1>1, <1>2, <1>3, <1>4, <1>5 DEF Next

LEMMA WireInvariant == Spec => []WireInv
<1>1. Init => WireInv
  BY InitWireInv
<1>2. WireInv /\ [Next]_vars => WireInv'
  BY NextWireInv
<1>3. QED
  BY <1>1, <1>2, PTL DEF Spec

-----------------------------------------------------------------------------
LEMMA InOrder ==
  ASSUME NEW got \in Stream, NEW channel \in Stream, NEW n \in Nat, Carries(got, channel, n)
  PROVE  /\ Consecutive(got \o channel)
         /\ got # << >> => got[1][2] = 1
         /\ got = << >> /\ channel # << >> => channel[1][2] = 1
<1> DEFINE all == got \o channel
<1>0. Len(got) \in Nat /\ Len(channel) \in Nat
  BY Streams
<1>1. /\ Len(all) = Len(got) + Len(channel)
      /\ \A i \in 1..(Len(got) + Len(channel)) :
           all[i] = IF i <= Len(got) THEN got[i] ELSE channel[i - Len(got)]
  BY ConcatProperties DEF Stream
<1> HIDE DEF all
<1>2. ASSUME NEW i \in 1..(Len(got) + Len(channel)) PROVE all[i] = <<n, i>>
  <2>1. CASE i <= Len(got)
    <3>1. i \in 1..Len(got)
      BY <1>0, <2>1
    <3>2. QED
      BY <1>1, <2>1, <3>1 DEF Carries
  <2>2. CASE ~(i <= Len(got))
    <3>1. i - Len(got) \in 1..Len(channel) /\ Len(got) + (i - Len(got)) = i
      BY <1>0, <2>2
    <3>2. all[i] = channel[i - Len(got)]
      BY <1>1, <2>2
    <3>3. channel[i - Len(got)] = <<n, Len(got) + (i - Len(got))>>
      BY <3>1 DEF Carries
    <3>4. QED
      BY <3>1, <3>2, <3>3
  <2>3. QED
    BY <2>1, <2>2
<1>3. ASSUME NEW i \in 1..(Len(all) - 1)
      PROVE  all[i + 1] = <<all[i][1], all[i][2] + 1>>
  <2>1. Len(all) = Len(got) + Len(channel)
    BY <1>1
  <2>2. i \in 1..(Len(got) + Len(channel)) /\ i + 1 \in 1..(Len(got) + Len(channel))
    BY <1>0, <2>1
  <2>3. all[i] = <<n, i>> /\ all[i + 1] = <<n, i + 1>>
    BY <1>2, <2>2
  <2>4. QED
    BY <2>3
<1>4. Consecutive(all)
  BY <1>3 DEF Consecutive
<1>5. ASSUME got # << >> PROVE got[1][2] = 1
  <2>1. got[1] = <<n, 1>>
    BY <1>5, FrameDecodes
  <2>2. QED
    BY <2>1
<1>6. ASSUME got = << >>, channel # << >> PROVE channel[1][2] = 1
  <2>1. Len(got) = 0 /\ Len(channel) > 0
    BY <1>0, <1>6, Streams
  <2>2. channel[1] = <<n, Len(got) + 1>>
    BY <1>0, <2>1 DEF Carries
  <2>3. QED
    BY <2>1, <2>2
<1>7. QED
  BY <1>4, <1>5, <1>6 DEF all

LEMMA NothingCarried == \A n : Carries(<< >>, << >>, n)
BY EmptyStream DEF Carries

(* Whatever the stream takes or gives at a time, bytes arrive in frames:   *)
(* no header is read out of the middle of a body.                          *)
THEOREM FramesStayAligned == Spec => []Aligned
<1>1. WireInv => Aligned
  <2> SUFFICES ASSUME WireInv PROVE Aligned
    OBVIOUS
  <2>0. /\ client.got \in Stream /\ server.got \in Stream /\ toServer \in Stream
        /\ toClient \in Stream /\ Made \in Nat
    BY Shapes
  <2>1. \E n \in Nat : Carries(server.got, toServer, n)
    <3>1. CASE server.got # << >>
      <4>1. PICK n \in 1..Made : Carries(server.got, toServer, n)
        BY <3>1 DEF WireInv, ToServer
      <4>2. QED
        BY <2>0, <4>1
    <3>2. CASE toServer # << >>
      BY <2>0, <3>2, BytesComing
    <3>3. CASE server.got = << >> /\ toServer = << >>
      BY <3>3, NothingCarried
    <3>4. QED
      BY <3>1, <3>2, <3>3
  <2>2. \E n \in Nat : Carries(client.got, toClient, n)
    <3>1. CASE client.at = "receiving"
      BY <2>0, <3>1 DEF WireInv, ToClient
    <3>2. CASE client.at # "receiving"
      <4>1. client.got = << >> /\ toClient = << >>
        BY <3>2 DEF WireInv, WireTypes, ToClient, OneCall, Idle
      <4>2. QED
        BY <4>1, NothingCarried
    <3>3. QED
      BY <3>1, <3>2
  <2>3. PICK n \in Nat : Carries(server.got, toServer, n)
    BY <2>1
  <2>4. PICK m \in Nat : Carries(client.got, toClient, m)
    BY <2>2
  <2>5. /\ Consecutive(server.got \o toServer)
        /\ server.got # << >> => server.got[1][2] = 1
        /\ server.got = << >> /\ toServer # << >> => toServer[1][2] = 1
    BY <2>0, <2>3, InOrder
  <2>6. /\ Consecutive(client.got \o toClient)
        /\ client.got # << >> => client.got[1][2] = 1
        /\ client.got = << >> /\ toClient # << >> => toClient[1][2] = 1
    BY <2>0, <2>4, InOrder
  <2>7. QED
    BY <2>5, <2>6 DEF Aligned
<1>2. QED
  BY <1>1, WireInvariant, PTL

(* The bytes a caller reads are those of the answer to the call it has     *)
(* just made.                                                              *)
THEOREM CallersReadTheirAnswers == Spec => []AnswersAreOurs
<1>1. WireInv => AnswersAreOurs
  BY DEF WireInv, ToClient, Carries, AnswersAreOurs
<1>2. QED
  BY <1>1, WireInvariant, PTL

-----------------------------------------------------------------------------
LEMMA RequestMakes ==
  ASSUME WireInv, NEW k \in Kinds, Request(k)
  PROVE  Promise!Make
<1>1. client.at = "idle" /\ \A n \in 1..Calls : fate[n] # "waiting"
  BY DEF Request, WireInv, OneCall
<1>2. Made < Calls /\ Made \in Nat /\ Calls \in Nat
  BY Shapes DEF Request
<1>3. Made' = Made + 1
  BY AppendProperties DEF Request, Made, WireInv, WireTypes
<1>4. fate' = [fate EXCEPT ![Made + 1] = "waiting"] /\ done' = done
  BY DEF Request, theServer
<1>5. \A n \in 1..Made : fate[n] # "waiting"
  BY <1>1, <1>2
<1>6. QED
  BY <1>2, <1>3, <1>4, <1>5 DEF Promise!Make

LEMMA ReturnTells ==
  ASSUME WireInv, client.at # "idle",
         NEW what, Returns(what), UNCHANGED theServer,
         what = "answered" => Made \in Carried,
         what \in {"unsent", "rejected"} => Made \notin Carried
  PROVE  Promise!Tell(what)
<1>1. Made > 0 /\ fate[Made] = "waiting"
  BY DEF WireInv, OneCall
<1>2. fate' = [fate EXCEPT ![Made] = what] /\ kind' = kind /\ done' = done
  BY DEF Returns, theServer
<1>3. Made' = Made
  BY <1>2 DEF Made
<1>4. QED
  BY <1>1, <1>2, <1>3 DEF Promise!Tell, Promise!Carried, Carried

LEMMA AnswerTells ==
  ASSUME WireInv, ClientTakesAnswer
  PROVE  Promise!Tell("answered") \/ Promise!Tell("rejected")
<1>1. /\ client.at = "receiving" /\ Whole(client.got) /\ UNCHANGED theServer
  BY DEF ClientTakesAnswer
<1>2. Returns(IF kind[Made] = "request" THEN "answered" ELSE "rejected")
  BY <1>1, AnswerComplete DEF ClientTakesAnswer
<1>3. CASE kind[Made] = "request"
  <2>1. Returns("answered") /\ Made \in Carried
    BY <1>1, <1>2, <1>3, AnswerComplete
  <2>2. QED
    BY <1>1, <2>1, ReturnTells
<1>4. CASE kind[Made] # "request"
  <2>1. Returns("rejected") /\ Made \notin Carried
    BY <1>2, <1>4 DEF WireInv, Fair
  <2>2. QED
    BY <1>1, <2>1, ReturnTells
<1>5. QED
  BY <1>3, <1>4

(* To carry a request out is to decode its frame. *)
LEMMA DecodingCarriesOut ==
  ASSUME WireInv, ServerDecodes
  PROVE  (\E n \in 1..Calls : Promise!CarryOut(n)) \/ UNCHANGED Promise!vars
<1>0. server.at = "receiving" /\ Whole(server.got)
  BY DEF ServerDecodes
<1>1. PICK n \in 1..Made :
        /\ server.got[1][1] = n
        /\ \A m \in Carried : m < n
        /\ fate[n] \notin {"unsent", "rejected", "unmade"}
  BY <1>0, FrameWhole
<1>2. /\ done' = IF kind[n] = "request" THEN Append(done, n) ELSE done
      /\ UNCHANGED <<kind, fate>>
  BY <1>1 DEF ServerDecodes, theClient
<1>3. Made' = Made /\ n \in 1..Calls
  BY <1>2, Shapes DEF Made
<1>4. done \in Seq(Nat) /\ Len(done) \in Nat /\ n \in Nat
  BY <1>3, LenProperties, LengthsAssumption DEF WireInv, WireTypes
<1>5. CASE kind[n] = "request"
  <2>1. done' = Append(done, n)
    BY <1>2, <1>5
  <2>2. Promise!CarryOut(n)
    BY <1>1, <1>2, <1>3, <2>1 DEF Promise!CarryOut, Promise!Carried, Carried
  <2>3. QED
    BY <1>3, <2>2
<1>6. CASE kind[n] # "request"
  BY <1>2, <1>3, <1>6 DEF Promise!vars
<1>7. QED
  BY <1>5, <1>6

LEMMA WireSimulates == WireInv /\ [Next]_vars => [Promise!Next]_(Promise!vars)
<1> SUFFICES ASSUME WireInv, [Next]_vars PROVE Promise!Next \/ UNCHANGED Promise!vars
  OBVIOUS
<1>0. ASSUME UNCHANGED <<kind, fate, done>> PROVE UNCHANGED Promise!vars
  BY <1>0 DEF Promise!vars, Made
<1>1. CASE UNCHANGED vars
  BY <1>0, <1>1 DEF vars
<1>2. ASSUME NEW k \in Kinds, Request(k) PROVE Promise!Next
  BY <1>2, RequestMakes DEF Promise!Next
<1>3. CASE ClientSendFails
  <2>1. client.at = "sending" /\ Returns("unsent") /\ UNCHANGED theServer
    BY <1>3 DEF ClientSendFails
  <2>2. Made \notin Carried
    BY <2>1 DEF WireInv, OneCall
  <2>3. Promise!Tell("unsent")
    BY <2>1, <2>2, ReturnTells
  <2>4. QED
    BY <2>3 DEF Promise!Next
<1>4. CASE ClientReceiveFails
  <2>1. client.at = "receiving" /\ Returns("unknown") /\ UNCHANGED theServer
    BY <1>4 DEF ClientReceiveFails
  <2>2. Promise!Tell("unknown")
    BY <2>1, ReturnTells
  <2>3. QED
    BY <2>2 DEF Promise!Next
<1>5. CASE ClientTakesAnswer
  BY <1>5, AnswerTells DEF Promise!Next
<1>6. ASSUME NEW k \in 1..FrameLen, ClientSends(k) \/ ClientReceives(k) PROVE UNCHANGED Promise!vars
  BY <1>0, <1>6 DEF ClientSends, ClientReceives, theServer
<1>7. CASE ServerDecodes
  BY <1>7, DecodingCarriesOut DEF Promise!Next
<1>8. ASSUME NEW k \in 1..FrameLen, ServerReceives(k) \/ ServerSends(k) PROVE UNCHANGED Promise!vars
  BY <1>0, <1>8 DEF ServerReceives, ServerSends, theClient
<1>9. CASE Closes
  BY <1>0, <1>9 DEF Closes, theClient
<1>10. CASE ServerLoops \/ Shutdown \/ Reset
  BY <1>0, <1>10 DEF ServerLoops, Shutdown, Reset, theClient, theServer
<1>11. CASE ClientProceeds
  BY <1>3, <1>4, <1>5, <1>6, <1>11 DEF ClientProceeds
<1>12. CASE ServerProceeds
  BY <1>7, <1>8, <1>9, <1>10, <1>12
  DEF ServerProceeds, ServerRefusesFrame, ServerReceiveFails, ServerSendFails, ServerLeaves
<1>13. QED
  BY <1>1, <1>2, <1>10, <1>11, <1>12 DEF Next

(* One connection keeps the promise of Exchange, whatever is lost, cut up  *)
(* or closed on the way: a call that could not be sent or was rejected has *)
(* not been carried out and never will be, one that was answered has been, *)
(* and no call is carried out twice or after a later one.                  *)
THEOREM WireImplementsExchange == Spec => ImplementsExchange
<1>1. Init => Promise!Init
  <2> SUFFICES ASSUME Init PROVE Promise!Init
    OBVIOUS
  <2>1. Made = 0
    BY EmptySeq DEF Init, Made
  <2>2. QED
    BY <2>1 DEF Init, Promise!Init
<1>2. WireInv /\ [Next]_vars => [Promise!Next]_(Promise!vars)
  BY WireSimulates
<1>3. QED
  BY <1>1, <1>2, WireInvariant, PTL DEF Spec, ImplementsExchange, Promise!Spec
=============================================================================
