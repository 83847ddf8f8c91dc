-------------------------------- MODULE Wire --------------------------------
(***************************************************************************)
(* One connection between a caller and a handler thread of the coordinator *)
(* (net.cpp, protocol.cpp, WorkerClient::request and                       *)
(* Coordinator::handle_client): frames cut into bytes by a stream that     *)
(* takes and gives as many at a time as it likes, send_exact and           *)
(* recv_exact that loop over it, recv_frame that reads a header and then   *)
(* what the header announces, and the loop that answers.  The connection   *)
(* may be reset at any moment and the coordinator shut down.               *)
(*                                                                         *)
(* A byte is <<n, i>>, the i-th of the frame of the n-th call, in either   *)
(* direction; header and body lengths are scaled down.  A frame is a       *)
(* request, or one the handler must cope with from any peer: malformed     *)
(* (a sound frame whose payload is no request), damaged (magic, version,   *)
(* type or checksum wrong), or oversized (its header announces too much).  *)
(***************************************************************************)
EXTENDS Integers, Sequences, SequencesExt

CONSTANTS
  Calls,       \* bound on the calls made
  Kinds,       \* the frames callers send
  HeaderLen,   \* kFrameHeaderLen
  FrameLen,    \* header, payload and trailer
  Capacity     \* how many bytes a direction of the stream holds

ASSUME LengthsAssumption ==
  Calls \in Nat /\ FrameLen \in Nat /\ HeaderLen \in 1..FrameLen /\ Capacity \in Nat \ {0}
ASSUME KindsAssumption == Kinds \subseteq {"request", "malformed", "damaged", "oversized"}

VARIABLES
  kind,       \* the kind of each call made
  fate,       \* what each call returned
  client,     \* WorkerClient::request: where it is, bytes sent, bytes got
  server,     \* handle_client: where it is, the frame it answers, bytes sent, got
  toServer, toClient,  \* the stream
  connected,  \* both ends are open and the network carries
  running,    \* Coordinator::running_
  done        \* the calls processed, in order

vars == <<kind, fate, client, server, toServer, toClient, connected, running, done>>
theClient == <<kind, fate, client>>
theServer == <<server, running, done>>
stream == <<toServer, toClient, connected>>

Idle == [at |-> "idle", sent |-> 0, got |-> << >>]
Receiving == [at |-> "receiving", answers |-> 0, sent |-> 0, got |-> << >>]
Gone == [Receiving EXCEPT !.at = "closed"]

Init ==
  /\ kind = << >>
  /\ fate = [n \in 1..Calls |-> "unmade"]
  /\ client = Idle
  /\ server = Receiving
  /\ toServer = << >> /\ toClient = << >>
  /\ connected = TRUE
  /\ running = TRUE
  /\ done = << >>

-----------------------------------------------------------------------------
(* Frames and the stream. *)

Made == Len(kind)

Bytes(n, from, to) == [i \in 1..(to - from + 1) |-> <<n, from + i - 1>>]

(* How many bytes one send may take: any number there is room for. *)
Portions(sent, channel) ==
  {k \in 1..(FrameLen - sent) : Len(channel) + k <= Capacity}

(* recv_frame reads the header, then what is left of the frame. *)
Wanted(got) == (IF Len(got) < HeaderLen THEN HeaderLen ELSE FrameLen) - Len(got)

Available(got, channel) == {k \in 1..Wanted(got) : k <= Len(channel)}

Whole(got) == Wanted(got) = 0

(* decode_frame accepts the bytes of one frame and nothing else. *)
Decodes(got) == got = Bytes(got[1][1], 1, FrameLen)

-----------------------------------------------------------------------------
(* WorkerClient::request. *)

Request(k) ==
  /\ client.at = "idle" /\ Made < Calls
  /\ kind' = Append(kind, k)
  /\ fate' = [fate EXCEPT ![Made + 1] = "waiting"]
  /\ client' = [Idle EXCEPT !.at = "sending"]
  /\ UNCHANGED <<stream, theServer>>

Returns(what) ==
  /\ fate' = [fate EXCEPT ![Made] = what]
  /\ client' = Idle
  /\ UNCHANGED kind

(* A slip: the caller takes a partial send for a complete one. *)
ClientSendsOnce(k) ==
  /\ client.at = "sending" /\ k \in Portions(client.sent, toServer)
  /\ client' = [client EXCEPT !.at = "receiving"]
  /\ toServer' = IF connected THEN toServer \o Bytes(Made, 1, k) ELSE toServer
  /\ UNCHANGED <<kind, fate, toClient, connected, theServer>>

(* What the caller hands over once the connection is gone, the system may  *)
(* still take: it is lost.                                                 *)
ClientSends(k) ==
  LET sent == client.sent + k
  IN  /\ client.at = "sending" /\ k \in Portions(client.sent, toServer)
      /\ client' = [client EXCEPT !.sent = sent,
                                  !.at = IF sent = FrameLen THEN "receiving" ELSE "sending"]
      /\ toServer' = IF connected THEN toServer \o Bytes(Made, client.sent + 1, sent) ELSE toServer
      /\ UNCHANGED <<kind, fate, toClient, connected, theServer>>

ClientSendFails ==
  /\ client.at = "sending" /\ ~connected
  /\ Returns("unsent")
  /\ UNCHANGED <<stream, theServer>>

ClientReceives(k) ==
  /\ client.at = "receiving" /\ k \in Available(client.got, toClient)
  /\ client' = [client EXCEPT !.got = @ \o SubSeq(toClient, 1, k)]
  /\ toClient' = SubSeq(toClient, k + 1, Len(toClient))
  /\ UNCHANGED <<kind, fate, toServer, connected, theServer>>

(* The answer says ERROR when the handler could make nothing of the        *)
(* request; nothing in it says which request it answers.                   *)
ClientTakesAnswer ==
  /\ client.at = "receiving" /\ Whole(client.got)
  /\ Returns(IF ~Decodes(client.got) THEN "unknown"
             ELSE IF kind[client.got[1][1]] = "request" THEN "answered" ELSE "rejected")
  /\ UNCHANGED <<stream, theServer>>

(* A slip: the caller stops waiting and goes on using the connection. *)
ClientTimesOut ==
  /\ client.at = "receiving" /\ ~Whole(client.got) /\ toClient = << >>
  /\ Returns("unknown")
  /\ UNCHANGED <<stream, theServer>>

ClientReceiveFails ==
  /\ client.at = "receiving" /\ ~Whole(client.got) /\ toClient = << >> /\ ~connected
  /\ Returns("unknown")
  /\ UNCHANGED <<stream, theServer>>

-----------------------------------------------------------------------------
(* Coordinator::handle_client. *)

(* The handler closes its end: what it sent may still arrive, unless it    *)
(* leaves something unread.                                                *)
Closes ==
  /\ server' = Gone
  /\ connected' = FALSE
  /\ toServer' = << >>
  /\ toClient' \in {toClient} \cup (IF toServer = << >> THEN {} ELSE {<< >>})
  /\ UNCHANGED <<theClient, running, done>>

ServerReceives(k) ==
  /\ server.at = "receiving" /\ k \in Available(server.got, toServer)
  /\ ~(Len(server.got) = HeaderLen /\ kind[server.got[1][1]] = "oversized")
  /\ server' = [server EXCEPT !.got = @ \o SubSeq(toServer, 1, k)]
  /\ toServer' = SubSeq(toServer, k + 1, Len(toServer))
  /\ UNCHANGED <<theClient, toClient, connected, running, done>>

(* Request::decode and process; a malformed request is answered too. *)
ServerDecodes ==
  LET n == server.got[1][1]
  IN  /\ server.at = "receiving" /\ Whole(server.got)
      /\ Decodes(server.got) /\ kind[n] \in {"request", "malformed"}
      /\ done' = IF kind[n] = "request" THEN Append(done, n) ELSE done
      /\ server' = [Receiving EXCEPT !.at = "answering", !.answers = n]
      /\ UNCHANGED <<theClient, stream, running>>

(* A slip: the handler goes on with the next frame, as it does after a     *)
(* malformed request.                                                      *)
ServerSkipsFrame ==
  /\ server.at = "receiving" /\ server.got # << >>
  /\ \/ Len(server.got) = HeaderLen /\ kind[server.got[1][1]] = "oversized"
     \/ Whole(server.got) /\ (Decodes(server.got) => kind[server.got[1][1]] = "damaged")
  /\ server' = Receiving
  /\ UNCHANGED <<theClient, stream, running, done>>

(* recv_frame says no and the handler gives the connection up: the header  *)
(* announces too much, or the frame does not decode.                       *)
ServerRefusesFrame ==
  /\ server.at = "receiving" /\ server.got # << >>
  /\ \/ Len(server.got) = HeaderLen /\ kind[server.got[1][1]] = "oversized"
     \/ Whole(server.got) /\ (Decodes(server.got) => kind[server.got[1][1]] = "damaged")
  /\ Closes

(* A slip: recv_exact takes the end of the stream for the end of a frame.  *)
ServerTakesFragment ==
  /\ server.at = "receiving" /\ ~Whole(server.got) /\ toServer = << >> /\ ~connected
  /\ IF server.got # << >> /\ kind[server.got[1][1]] = "request"
     THEN /\ done' = Append(done, server.got[1][1])
          /\ server' = [Receiving EXCEPT !.at = "answering", !.answers = server.got[1][1]]
          /\ UNCHANGED <<theClient, stream, running>>
     ELSE Closes

ServerReceiveFails ==
  /\ server.at = "receiving" /\ ~Whole(server.got) /\ toServer = << >> /\ ~connected
  /\ Closes

(* A slip: send gives up after what the stream takes the first time. *)
ServerSendsOnce(k) ==
  /\ server.at = "answering" /\ connected /\ k \in Portions(server.sent, toClient)
  /\ toClient' = toClient \o Bytes(server.answers, server.sent + 1, server.sent + k)
  /\ server' = [Receiving EXCEPT !.at = "looping"]
  /\ UNCHANGED <<theClient, toServer, connected, running, done>>

ServerSends(k) ==
  LET sent == server.sent + k
  IN  /\ server.at = "answering" /\ connected /\ k \in Portions(server.sent, toClient)
      /\ toClient' = toClient \o Bytes(server.answers, server.sent + 1, sent)
      /\ server' = IF sent = FrameLen THEN [Receiving EXCEPT !.at = "looping"]
                   ELSE [server EXCEPT !.sent = sent]
      /\ UNCHANGED <<theClient, toServer, connected, running, done>>

(* A slip: a request whose answer cannot be sent is processed once more.   *)
ServerProcessesAgain ==
  /\ server.at = "answering" /\ ~connected
  /\ done' = IF kind[server.answers] = "request" THEN Append(done, server.answers) ELSE done
  /\ server' = Gone
  /\ UNCHANGED <<theClient, stream, running>>

ServerSendFails ==
  /\ server.at = "answering" /\ ~connected
  /\ Closes

(* running_ is looked at between two requests and at no other time. *)
ServerLoops ==
  /\ server.at = "looping" /\ running
  /\ server' = Receiving
  /\ UNCHANGED <<theClient, stream, running, done>>

ServerLeaves ==
  /\ server.at = "looping" /\ ~running
  /\ Closes

Shutdown ==
  /\ running
  /\ running' = FALSE
  /\ UNCHANGED <<theClient, stream, server, done>>

(* The network, or the end of a process, takes the connection with what    *)
(* is under way.                                                           *)
Reset ==
  /\ connected
  /\ connected' = FALSE
  /\ toServer' = << >> /\ toClient' = << >>
  /\ UNCHANGED <<theClient, theServer>>

-----------------------------------------------------------------------------
ClientProceeds ==
  \/ \E k \in 1..FrameLen : ClientSends(k) \/ ClientReceives(k)
  \/ ClientSendFails \/ ClientTakesAnswer \/ ClientReceiveFails

ServerProceeds ==
  \/ \E k \in 1..FrameLen : ServerReceives(k) \/ ServerSends(k)
  \/ ServerDecodes \/ ServerRefusesFrame \/ ServerReceiveFails
  \/ ServerSendFails \/ ServerLoops \/ ServerLeaves

Next ==
  \/ \E k \in Kinds : Request(k)
  \/ ClientProceeds \/ ServerProceeds
  \/ Shutdown \/ Reset

(* Both ends are threads that run, and the network moves what it accepted  *)
(* or reports that it cannot.                                              *)
Spec == Init /\ [][Next]_vars /\ WF_vars(ClientProceeds) /\ WF_vars(ServerProceeds)

-----------------------------------------------------------------------------
(* However the stream cuts them up, bytes arrive in frames: what an end    *)
(* holds and what is on its way to it are consecutive bytes of one frame   *)
(* and the next, from the first byte of a frame on, so that a header is    *)
(* never read out of the middle of a body (net.cpp:77-94).                 *)
Consecutive(bytes) ==
  \A i \in 1..(Len(bytes) - 1) :
    \/ bytes[i + 1] = <<bytes[i][1], bytes[i][2] + 1>>
    \/ bytes[i][2] = FrameLen /\ bytes[i + 1][1] > bytes[i][1] /\ bytes[i + 1][2] = 1

Aligned ==
  /\ Consecutive(server.got \o toServer)
  /\ Consecutive(client.got \o toClient)
  /\ server.got # << >> => server.got[1][2] = 1
  /\ client.got # << >> => client.got[1][2] = 1
  /\ (server.got = << >> /\ server.at # "closed" /\ toServer # << >>) => toServer[1][2] = 1
  /\ (client.got = << >> /\ toClient # << >>) => toClient[1][2] = 1

(* An answer carries no number, yet the bytes a caller reads are those of  *)
(* the answer to the call it has just made (distributed.cpp:134-141): no   *)
(* failure leaves an answer behind for the next call to find.              *)
AnswersAreOurs ==
  client.at = "receiving" => \A i \in 1..Len(client.got) : client.got[i][1] = Made

(* No call hangs: whatever becomes of the connection, and however little   *)
(* of a frame the stream takes at a time, request returns.                 *)
EveryCallEnds == client.at # "idle" ~> client.at = "idle"

(* On a connection that holds, a coordinator that is not shut down answers *)
(* every request it can read: neither end waits for bytes the other waits  *)
(* to be able to send.                                                     *)
EveryRequestAnswered ==
  \A n \in 1..Calls :
    (Made = n /\ client.at # "idle" /\ kind[n] = "request")
      ~> (fate[n] = "answered" \/ ~connected)

Promise == INSTANCE Exchange WITH made <- Made

(* Frames, bytes and resets keep the promise of Exchange, which is how     *)
(* Coordinator takes a connection to behave: a call that could not be sent *)
(* or was rejected has not been carried out and never will be, so making   *)
(* it again is safe; one that was answered has; and no call is carried out *)
(* twice, or after a later one.                                            *)
ImplementsExchange == Promise!Spec
=============================================================================
