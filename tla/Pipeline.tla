------------------------------- MODULE Pipeline -------------------------------
(***************************************************************************)
(* What becomes of a configuration's bytes in executeDeviceBackup          *)
(* (backup.go): they come from the device, through the option filter if    *)
(* the protocol is Telnet; blank ends are trimmed (SanitizeConfig); they   *)
(* are sealed with the agent's key, and masked line by line.  The dialogue *)
(* that finds the end of the text is in Session, what becomes of the two   *)
(* results in UploadQueue.                                                 *)
(***************************************************************************)
EXTENDS Naturals, Sequences, FiniteSetsExt

CONSTANTS
  Char, Option, MaxTokens, BufSize, Key, Nonce, BadKey,
  MaxText     \* bound on the length of a text that comes by SSH

VARIABLES
  sent, wire, text, due, state, buf, out, replies,   \* TelnetFilter
  source, line, eof, copied, copying,                \* MaskingReader
  agentKey,   \* the key in the configuration the agent has loaded
  pc,         \* how far executeDeviceBackup is
  plain,      \* what FetchConfig returned
  packet      \* what EncryptConfig returned

Telnet == INSTANCE TelnetFilter
Masker == INSTANCE MaskingReader
P      == INSTANCE Packet

ASSUME PipelineAssumption ==
  Telnet!TelnetAssumption /\ Masker!BufSizeAssumption /\ P!PacketAssumption /\ MaxText \in Nat

telnetVars == <<sent, wire, text, due, state, buf, out, replies>>
maskVars   == <<source, line, eof, copied, copying>>
vars       == <<telnetVars, maskVars, agentKey, pc, plain, packet>>

NoPacket == P!Cut(P!EncryptConfig(<<>>, BadKey, CHOOSE n \in Nonce : TRUE), 0)

Init ==
  /\ Telnet!Init /\ Masker!Init
  /\ agentKey \in Key \cup {BadKey}
  /\ pc \in {"ssh", "telnet"} /\ plain = <<>> /\ packet = NoPacket

-----------------------------------------------------------------------------
Blank == {"CR", "LF"}
TrimSpace(t) ==
  LET inked == {i \in 1 .. Len(t) : t[i] \notin Blank}
  IN IF inked = {} THEN <<>> ELSE SubSeq(t, Min(inked), Max(inked))

TelnetStep == pc = "telnet" /\ Telnet!Next /\ UNCHANGED <<maskVars, agentKey, pc, plain, packet>>

(* The end of the answer, which Session finds by its prompt, has been read *)
FetchByTelnet ==
  /\ pc = "telnet" /\ wire = <<>> /\ buf = <<>>
  /\ plain' = TrimSpace(out) /\ pc' = "fetched"
  /\ UNCHANGED <<telnetVars, maskVars, agentKey, packet>>
FetchBySSH ==
  /\ pc = "ssh"
  /\ \E n \in 0 .. MaxText : \E t \in [1 .. n -> Char] :
       text' = t /\ out' = t /\ plain' = TrimSpace(t)
  /\ pc' = "fetched"
  /\ UNCHANGED <<sent, wire, due, state, buf, replies, maskVars, agentKey, packet>>

(* ValidateKey, EncryptConfig, and the copy through the masking reader *)
Encrypt ==
  /\ pc = "fetched" /\ agentKey # BadKey
  /\ \E n \in Nonce : packet' = P!EncryptConfig(plain, agentKey, n)
  /\ Masker!Copy(plain) /\ pc' = "masking"
  /\ UNCHANGED <<telnetVars, agentKey, plain>>
KeyInvalid ==
  /\ pc = "fetched" /\ agentKey = BadKey
  /\ pc' = "failed" /\ UNCHANGED <<telnetVars, maskVars, agentKey, plain, packet>>
MaskStep ==
  /\ pc = "masking" /\ Masker!Read
  /\ pc' = IF copying' THEN "masking" ELSE "done"
  /\ UNCHANGED <<telnetVars, agentKey, plain, packet>>

Next == TelnetStep \/ FetchByTelnet \/ FetchBySSH \/ Encrypt \/ KeyInvalid \/ MaskStep
Spec == Init /\ [][Next]_vars

-----------------------------------------------------------------------------
(* However a Telnet stream is cut into segments, the agent gets the device's
   text and the device gets its refusals (TelnetConn.Read).                 *)
TextIsPassedOn == pc = "telnet" => Telnet!TextIsPassedOn

(* The masked copy is the text with what is behind a keyword hidden and every
   other character and line end in its place, however the reader is asked for
   its lines (MaskingReader.Read).                                         *)
MaskedIsShown == pc = "done" => copied = Masker!Shown(TrimSpace(text))

(* xconf-agent decrypt gives back what the device sent, from the packet as it
   was made and with the key it was made with; a file that was cut anywhere
   is told apart from a wrong key, and neither ever gives another text.     *)
TextIsRecovered ==
  pc = "done" => \A key \in Key, size \in 0 .. packet.size :
    LET result == P!Decrypt(P!Cut(packet, size), key)
    IN IF size = packet.size
         THEN IF key = agentKey THEN result = P!Opened(TrimSpace(text))
              ELSE result = P!Failed("wrong key or corrupted")
         ELSE result \in {P!Failed("too short"), P!Failed("invalid length")}
=============================================================================
