----------------------------- MODULE Dialogue ------------------------------
(***************************************************************************)
(* What a connection promises its two applications, whatever becomes of    *)
(* it: the server speaks first and hears nothing before it has admitted    *)
(* the client; each end hears what the other has said, one message after   *)
(* another and each once, a message with a body with its own and one       *)
(* without with the body it heard last.  There are no units, no queues and *)
(* no sockets.                                                             *)
(***************************************************************************)
EXTENDS Integers, Sequences

CONSTANTS
  Messages,
  Bodied,    \* those with a body
  NoMsg,     \* no message
  Greeting   \* what the server says first

Ends == {"client", "server"}
Peer(e) == IF e = "client" THEN "server" ELSE "client"

VARIABLES
  sent,      \* what each end has said
  in,        \* what each end has heard,
  inBody,    \* and the message whose body came with each
  admitted   \* has the server admitted the client?

heard == <<in, inBody>>
dvars == <<sent, heard, admitted>>

DInit ==
  /\ sent = [e \in Ends |-> <<>>]
  /\ in = [e \in Ends |-> <<>>] /\ inBody = [e \in Ends |-> <<>>]
  /\ admitted = FALSE

Greet ==
  /\ sent["server"] = <<>>
  /\ sent' = [sent EXCEPT !["server"] = <<Greeting>>]
  /\ UNCHANGED <<heard, admitted>>

Say(e, m) ==
  /\ e = "server" => sent[e] # <<>>
  /\ sent' = [sent EXCEPT ![e] = Append(@, m)]
  /\ UNCHANGED <<heard, admitted>>

Admit ==
  /\ ~admitted
  /\ admitted' = TRUE
  /\ UNCHANGED <<sent, heard>>

\* The body that e heard last.
LastBody(e) == IF inBody[e] = <<>> THEN NoMsg ELSE inBody[e][Len(inBody[e])]

\* The next message the other end has said.
Hear(e) ==
  /\ e = "server" => admitted
  /\ Len(in[e]) < Len(sent[Peer(e)])
  /\ LET m == sent[Peer(e)][Len(in[e]) + 1] IN
       /\ in' = [in EXCEPT ![e] = Append(@, m)]
       /\ inBody' = [inBody EXCEPT ![e] = Append(@, IF m \in Bodied THEN m ELSE LastBody(e))]
  /\ UNCHANGED <<sent, admitted>>

DNext ==
  \/ Greet \/ Admit
  \/ \E e \in Ends : Hear(e) \/ \E m \in Messages : Say(e, m)

DSpec == DInit /\ [][DNext]_dvars
=============================================================================
