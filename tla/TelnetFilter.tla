----------------------------- MODULE TelnetFilter -----------------------------
(***************************************************************************)
(* TelnetConn (driver/driver.go): the reader that takes the option         *)
(* negotiations out of a Telnet connection and refuses every option.  The  *)
(* connection gives its bytes in segments cut anywhere; what has been      *)
(* filtered waits in buf until the caller has taken all of it.             *)
(*                                                                         *)
(* A byte is a number where the code looks at its value; the characters of *)
(* the text, whose values it never looks at, are names.                    *)
(***************************************************************************)
EXTENDS Naturals, Sequences, SequencesExt

CONSTANTS
  Char,        \* characters a device may send as text
  Option,      \* bytes that name options
  MaxTokens    \* bound on what a device sends

IAC == "255"  DONT == "254"  DO == "253"  WONT == "252"  WILL == "251"
SB  == "250"  SE == "240"    NOP == "241"
Verb == {WILL, WONT, DO, DONT}

TelnetAssumption ==
  /\ MaxTokens \in Nat
  /\ IAC \notin Option \cup Char /\ SE \notin Option

VARIABLES
  sent,     \* how many tokens the device has sent
  wire,     \* bytes sent and not read by the agent
  text,     \* what the device meant as text
  due,      \* the answers the device must get
  state, buf,   \* TelnetConn
  out,      \* what Read has given its caller
  replies   \* what Read has written to the device

connVars   == <<state, buf, out, replies>>
deviceVars == <<sent, text, due>>
vars       == <<wire, deviceVars, connVars>>

Init ==
  /\ sent = 0 /\ wire = <<>> /\ text = <<>> /\ due = <<>>
  /\ state = "normal" /\ buf = <<>> /\ out = <<>> /\ replies = <<>>

-----------------------------------------------------------------------------
(* The device, as RFC 854 has it.  IAC is doubled in the text and inside a
   subnegotiation; an offer is refused by DONT, a request by WONT.          *)
Sends(bytes, chars, answers) ==
  /\ sent < MaxTokens /\ sent' = sent + 1
  /\ wire' = wire \o bytes /\ text' = text \o chars /\ due' = due \o answers
  /\ UNCHANGED connVars
Refusal(verb) == IF verb \in {WILL, WONT} THEN DONT ELSE WONT

SendsText == \/ \E c \in Char : Sends(<<c>>, <<c>>, <<>>)
             \/ Sends(<<IAC, IAC>>, <<IAC>>, <<>>)
Negotiates == \E verb \in Verb, o \in Option :
                Sends(<<IAC, verb, o>>, <<>>, <<IAC, Refusal(verb), o>>)
Subnegotiates == \E o \in Option, value \in {<<>>, <<IAC, IAC>>, <<SE>>} :
                   Sends(<<IAC, SB, o>> \o value \o <<IAC, SE>>, <<>>, <<>>)
Commands == Sends(<<IAC, NOP>>, <<>>, <<>>)
Device == SendsText \/ Negotiates \/ Subnegotiates \/ Commands

-----------------------------------------------------------------------------
(* The loop over the bytes of a segment *)

Filtered(c, b) ==
  CASE c.state = "normal" ->
         IF b = IAC THEN [c EXCEPT !.state = "iac"] ELSE [c EXCEPT !.buf = Append(@, b)]
    [] c.state = "iac" ->
         IF b \in Verb \cup {SB} THEN [c EXCEPT !.state = b]
         ELSE [c EXCEPT !.state = "normal", !.buf = IF b = IAC THEN Append(@, IAC) ELSE @]
    [] c.state \in {WILL, WONT} ->
         [c EXCEPT !.state = "normal", !.replies = @ \o <<IAC, DONT, b>>]
    [] c.state \in {DO, DONT} ->
         [c EXCEPT !.state = "normal", !.replies = @ \o <<IAC, WONT, b>>]
    [] c.state = SB -> IF b = IAC THEN [c EXCEPT !.state = "sbiac"] ELSE c
    [] c.state = "sbiac" -> [c EXCEPT !.state = IF b = SE THEN "normal" ELSE SB]

(* Slip: the state is a variable of Read and not of the connection *)
StateAtReadFresh(s) == "normal"
StateAtRead(s) == s

(* conn.Read gives any part of what has come; all of it is filtered *)
Receive ==
  /\ buf = <<>>
  /\ \E n \in 1 .. Len(wire) :
       LET after[i \in 0 .. n] ==
             IF i = 0 THEN [state |-> StateAtRead(state), buf |-> buf, replies |-> replies]
             ELSE Filtered(after[i - 1], wire[i])
           end == after[n]
       IN /\ wire' = SubSeq(wire, n + 1, Len(wire))
          /\ state' = end.state /\ buf' = end.buf /\ replies' = end.replies
  /\ UNCHANGED <<deviceVars, out>>

(* copy(p, tc.buf): the caller's slice may be shorter than buf *)
Hand ==
  /\ buf # <<>>
  /\ \E n \in 1 .. Len(buf) :
       out' = out \o SubSeq(buf, 1, n) /\ buf' = SubSeq(buf, n + 1, Len(buf))
  /\ UNCHANGED <<wire, deviceVars, state, replies>>

Conn == Receive \/ Hand
Next == Device \/ Conn
Spec == Init /\ [][Next]_vars

-----------------------------------------------------------------------------
(* However the stream is cut into segments and handed on, the caller gets the
   device's text and nothing of a negotiation, and the device gets one refusal
   for each option it named, in its order: nothing is left out once all that
   it sent has been read, and nothing else is ever passed on.               *)
TextIsPassedOn ==
  /\ IsPrefix(out \o buf, text) /\ IsPrefix(replies, due)
  /\ wire = <<>> => out \o buf = text /\ replies = due /\ state = "normal"
=============================================================================
