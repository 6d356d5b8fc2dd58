---------------------------- MODULE MessageRelay ----------------------------
(***************************************************************************)
(* What the relay promises its clients, without tasks, locks or queues of  *)
(* bounded length: one directory of peers, one mailbox per connection.     *)
(*                                                                         *)
(* A connection has one frame in hand at a time.  The directory is asked   *)
(* once, for the frame's address; from then on the message is bound for    *)
(* the connection that was found and either goes into that connection's    *)
(* mailbox, behind all that is there, or is lost because the mailbox is    *)
(* shut.  The sender's reply, queued before the message, says whether the  *)
(* directory knew the recipient, and nothing about delivery.               *)
(***************************************************************************)
EXTENDS Naturals, Sequences

CONSTANTS Conn, PeerId, RouteId, Prefix, None

VARIABLES
  home,    \* home[p]: the connection at which peer p is reached, or None
  name,    \* name[c]: the peer id that c announced last, or None
  count,   \* count[c]: the number of frames c has sent
  phase,   \* phase[c]: what c does
  want,    \* want[c]: the address to be looked up for c's frame, or None
  slip,    \* slip[c]: the message of c that is bound for a connection, or None
  mailbox, \* mailbox[c]: "none", "open" or "shut"
  box,     \* box[c]: what waits in the mailbox of c
  got      \* got[c]: what the client of c was handed

relayVars == <<home, name, count, phase, want, slip, mailbox, box, got>>

\* An address is a peer id, or a route id, which all peers of that prefix share.
Address == ({"peer"} \X PeerId) \cup ({"prefix"} \X RouteId)

Reach(a) == IF a[1] = "peer" THEN {a[2]} ELSE {p \in PeerId : Prefix[p] = a[2]}

RelayInit ==
  /\ home = [p \in PeerId |-> None]
  /\ name = [c \in Conn |-> None]
  /\ count = [c \in Conn |-> 0]
  /\ phase = [c \in Conn |-> "new"]
  /\ want = [c \in Conn |-> None]
  /\ slip = [c \in Conn |-> None]
  /\ mailbox = [c \in Conn |-> "none"]
  /\ box = [c \in Conn |-> <<>>]
  /\ got = [c \in Conn |-> <<>>]

Move(c, from, to) == phase[c] = from /\ phase' = [phase EXCEPT ![c] = to]

Connect(c) ==
  /\ Move(c, "new", "idle")
  /\ mailbox' = [mailbox EXCEPT ![c] = "open"]
  /\ UNCHANGED <<home, name, count, want, slip, box, got>>

\* A frame that needs the directory, for an announcement or an address; or one
\* that is answered without it, or dropped.
TakeFrame(c) ==
  /\ \/ /\ Move(c, "idle", "asking")
        /\ \E a \in Address : want' = [want EXCEPT ![c] = a]
     \/ Move(c, "idle", "announcing") /\ UNCHANGED want
     \/ Move(c, "idle", "answering") /\ UNCHANGED want
     \/ Move(c, "idle", "idle") /\ UNCHANGED want
  /\ count' = [count EXCEPT ![c] = @ + 1]
  /\ UNCHANGED <<home, name, slip, mailbox, box, got>>

Announce(c) ==
  /\ Move(c, "announcing", "idle")
  /\ \E p \in PeerId :
       home' = [home EXCEPT ![p] = c] /\ name' = [name EXCEPT ![c] = p]
  /\ UNCHANGED <<count, want, slip, mailbox, box, got>>

\* A peer is withdrawn when the connection it is reached at leaves or can take
\* no more mail, and only then.
Withdraw(p) ==
  /\ home[p] # None
  /\ \/ mailbox[home[p]] = "shut"
     \/ phase[home[p]] = "left" /\ name[home[p]] = p
  /\ home' = [home EXCEPT ![p] = None]
  /\ UNCHANGED <<name, count, phase, want, slip, mailbox, box, got>>

\* A message of c to address a, and the reply to its sender.
Message(c, a, kind) ==
  [kind |-> kind, src |-> c, n |-> count[c], from |-> name[c], to |-> a[2],
   accepted |-> FALSE,
   correlation_id |-> IF kind = "DeliveryStatusEvent" THEN count[c] ELSE 0]

ReplyTo(c, kind) ==
  [kind |-> kind, src |-> c, n |-> count[c], from |-> name[c], to |-> None,
   accepted |-> slip[c] # None, correlation_id |-> count[c]]

\* The address is found: the message is bound for a connection at which a peer
\* of that address is reached now.  What is sent to a peer is answered first, and
\* none but a delivery status is bound for an address of the sender's own.
Find(c, p, kind) ==
  /\ Move(c, "asking", IF kind = "IncomingMessageEvent" THEN "answering" ELSE "bound")
  /\ p \in Reach(want[c])
  /\ home[p] # None
  /\ kind = "IncomingMessageEvent" <=> want[c][1] = "peer"
  /\ kind # "DeliveryStatusEvent" => name[c] \notin Reach(want[c])
  /\ want' = [want EXCEPT ![c] = None]
  /\ slip' = [slip EXCEPT ![c] = [dest |-> home[p], message |-> Message(c, want[c], kind)]]
  /\ UNCHANGED <<home, name, count, mailbox, box, got>>

\* The address is not found, which takes a peer of that address that is away
\* (or that there is none at all).
Deny(c) ==
  /\ Move(c, "asking", IF want[c][1] = "peer" THEN "answering" ELSE "idle")
  /\ Reach(want[c]) = {} \/ \E p \in Reach(want[c]) : home[p] = None
  /\ want' = [want EXCEPT ![c] = None]
  /\ UNCHANGED <<home, name, count, slip, mailbox, box, got>>

\* The reply goes into the sender's own mailbox, if that is open.
Answer(c, kind) ==
  /\ Move(c, "answering", IF slip[c] = None THEN "idle" ELSE "bound")
  /\ \/ mailbox[c] = "open" /\ box' = [box EXCEPT ![c] = Append(@, ReplyTo(c, kind))]
     \/ mailbox[c] = "shut" /\ UNCHANGED box
  /\ UNCHANGED <<home, name, count, want, slip, mailbox, got>>

Post(c) ==
  /\ Move(c, "bound", "idle")
  /\ \/ /\ mailbox[slip[c].dest] = "open"
        /\ box' = [box EXCEPT ![slip[c].dest] = Append(@, slip[c].message)]
     \/ mailbox[slip[c].dest] = "shut" /\ UNCHANGED box
  /\ slip' = [slip EXCEPT ![c] = None]
  /\ UNCHANGED <<home, name, count, want, mailbox, got>>

HandOver(c) ==
  /\ mailbox[c] = "open"
  /\ box[c] # <<>>
  /\ got' = [got EXCEPT ![c] = Append(@, Head(box[c]))]
  /\ box' = [box EXCEPT ![c] = Tail(@)]
  /\ UNCHANGED <<home, name, count, phase, want, slip, mailbox>>

\* A mailbox is shut for good, with what is in it.
Shut(c) ==
  /\ mailbox[c] = "open"
  /\ mailbox' = [mailbox EXCEPT ![c] = "shut"]
  /\ box' = [box EXCEPT ![c] = <<>>]
  /\ UNCHANGED <<home, name, count, phase, want, slip, got>>

Leave(c) ==
  /\ Move(c, "idle", "left") \/ Move(c, "idle", "failed")
  /\ UNCHANGED <<home, name, count, want, slip, mailbox, box, got>>

RelayNext ==
  \/ \E p \in PeerId : Withdraw(p)
  \/ \E c \in Conn :
       \/ Connect(c) \/ TakeFrame(c) \/ Announce(c) \/ Leave(c)
       \/ Deny(c)
       \/ \E p \in PeerId, kind \in {"IncomingMessageEvent", "DeliveryStatusEvent", "Raw"} :
            Find(c, p, kind)
       \/ \E kind \in {"SendMessageResponse", "HeartbeatResponse"} : Answer(c, kind)
       \/ Post(c) \/ HandOver(c) \/ Shut(c)

RelaySpec == RelayInit /\ [][RelayNext]_relayVars

=============================================================================
