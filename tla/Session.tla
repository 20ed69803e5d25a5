------------------------------- MODULE Session -------------------------------
(***************************************************************************)
(* A backup's dialogue with its device: executeSSHExpect,                  *)
(* executeTelnetExpect and readUntilRegex (driver/engine.go) and           *)
(* cleanSwitchOutput (driver/driver.go), against a device that sends what  *)
(* it sends in pieces cut anywhere.                                        *)
(*                                                                         *)
(* The device's output is a sequence of pieces of text, told apart by what *)
(* the program's patterns and filters make of them:                        *)
(*   user, pass     "Username:" or "login:", and "Password:"               *)
(*   verification   "User verification"                                    *)
(*   shell, priv    the prompts of the two modes, as Cisco's > and #       *)
(*   config         output of the backup command                           *)
(*   mention        a line of it in which one of the agent's commands occurs *)
(*   marked         a line of it that ends in # or > and that the pattern  *)
(*                  does not take for a prompt: Huawei's separators        *)
(*   echo, text     a command sent back; any other text                    *)
(*   userLike, passLike, like   text that looks like a login, password or  *)
(*                  shell prompt to a reader that has read up to there: a  *)
(*                  banner with "password:", "Last login:", a line "xyz>"  *)
(***************************************************************************)
EXTENDS Naturals, Sequences, FiniteSets, SequencesExt

CONSTANTS
  InitCommands,   \* number of init_commands of the device model
  Outputs,        \* what a device may answer to the backup command
  MaxNoise,       \* bound on prompts nobody asked for
  MaxLooks        \* bound on look-alikes, not counting those of Outputs

(* Text that the device may send for whatever reason *)
LookAlikes == {"userLike", "passLike", "like"}
Chatter    == {"text"} \cup LookAlikes

ASSUME SessionAssumption ==
  /\ InitCommands \in Nat /\ MaxNoise \in Nat /\ MaxLooks \in Nat
  /\ Outputs \subseteq Seq({"config", "mention", "marked"} \cup Chatter)

VARIABLES
  setup,    \* the protocol and what kind of device it is
  mode,     \* device: what it does with the next line
  output,   \* device: what it answered to the backup command
  misused,  \* device: it read the password where it had not asked for one
  wire,     \* pieces sent by the device and not read yet
  typed,    \* lines sent by the agent and not read yet
  pc,       \* the readUntilRegex the agent is in, or its result
  acc,      \* what that call has accumulated; in the end, the saved config
  sent,     \* init commands sent so far
  early,    \* the agent typed while the device had not come to its prompt
  lured,    \* the kinds of look-alikes it answered before the backup command
  noise,    \* prompts nobody asked for
  looks     \* look-alikes sent, not counting those of the backup's answer

device == <<mode, output, misused>>
agent  == <<pc, acc, sent, early, lured>>
bounds == <<noise, looks>>
vars   == <<setup, device, wire, typed, agent, bounds>>

Setup == {s \in
  [telnet : BOOLEAN, cisco : BOOLEAN,
   login  : {"none", "user", "password"},  \* what it asks for at first
   greets : BOOLEAN,                       \* with "user verification"
   shell  : {"shell", "priv"},             \* the mode a login leads to
   secret : {"none", "same", "other"},     \* enable's password
   known  : BOOLEAN,                       \* the agent's login is right
   prompt : BOOLEAN] :                     \* it answers within the timeouts
  s.greets => s.login # "none"}

Asking  == {"login", "password", "enable"}
Shells  == {"shell", "priv"}
Ended   == {"ok", "failed"}
Waiting == {"initial", "user", "password", "enable", "enablePassword", "init", "backup"}
Piece   == {"user", "pass", "verification", "shell", "priv", "config", "mention",
            "marked", "echo"} \cup Chatter
Line    == {"username", "password", "enable", "init", "backup", "exit"}

TypeOK ==
  /\ setup \in Setup /\ mode \in Asking \cup Shells \cup {"closed"}
  /\ output \in Outputs \cup {<<>>}
  /\ wire \in Seq(Piece) /\ typed \in Seq(Line) /\ acc \in Seq(Piece)
  /\ pc \in Waiting \cup Ended /\ sent \in 0 .. InitCommands
  /\ {misused, early} \subseteq BOOLEAN /\ lured \subseteq LookAlikes 
  /\ noise \in 0 .. MaxNoise /\ looks \in 0 .. MaxLooks

Ask(m) == CASE m = "login" -> "user" [] m \in {"password", "enable"} -> "pass"
            [] OTHER -> m
AtLogin(s) == CASE s.login = "user" -> "login" [] s.login = "password" -> "password"
                [] OTHER -> s.shell

LooksIn(piece) == IF piece \in LookAlikes THEN 1 ELSE 0

Init ==
  /\ setup \in Setup
  /\ mode = AtLogin(setup)
  /\ \E greeting \in IF setup.greets THEN {"verification"} ELSE Chatter :
       wire = <<greeting, Ask(mode)>> /\ looks = LooksIn(greeting)
  /\ looks <= MaxLooks
  /\ typed = <<>> /\ output = <<>> /\ misused = FALSE
  /\ pc = "initial" /\ acc = <<>> /\ sent = 0 /\ early = FALSE
  /\ lured = {} /\ noise = 0

-----------------------------------------------------------------------------
(* The device *)

Sends(pieces, m) == mode' = m /\ wire' = wire \o pieces \o <<Ask(m)>>
(* It says something of its own and prints the next prompt *)
Says(pieces, m) ==
  \E t \in Chatter :
    /\ Sends(Append(pieces, t), m)
    /\ looks' = looks + LooksIn(t) /\ looks' <= MaxLooks
Reads(line)      == typed # <<>> /\ Head(typed) = line /\ typed' = Tail(typed)
Misuse(line)     == misused' = (misused \/ line = "password")

(* It reads a user name, then a password; it may hang up on a wrong one *)
ReadsLogin ==
  /\ pc \notin Ended
  /\ \E line \in Line :
       /\ Reads(line)
       /\ \/ /\ mode = "login" /\ Sends(<<>>, "password")
             /\ Misuse(line) /\ UNCHANGED looks
          \/ /\ mode = "password" /\ UNCHANGED misused
             /\ IF line = "password" /\ setup.known
                  THEN Says(<<>>, setup.shell)
                  ELSE \/ Says(<<>>, AtLogin(setup))
                       \/ mode' = "closed" /\ UNCHANGED <<wire, looks>>
  /\ UNCHANGED <<setup, output, agent, noise>>

ReadsEnable ==
  /\ pc \notin Ended /\ mode = "shell" /\ Reads("enable")
  /\ Sends(<<"echo">>, IF setup.secret = "none" THEN "priv" ELSE "enable")
  /\ UNCHANGED <<setup, output, misused, agent, bounds>>
ReadsSecret ==
  /\ pc \notin Ended /\ mode = "enable"
  /\ \E line \in Line :
       Reads(line) /\ IF line = "password" /\ setup.secret = "same"
                        THEN Sends(<<>>, "priv") /\ UNCHANGED looks
                        ELSE Says(<<>>, "shell")
  /\ UNCHANGED <<setup, output, misused, agent, noise>>

ReadsCommand ==
  /\ pc \notin Ended /\ mode \in Shells
  /\ \E line \in Line \ {"backup"} :
       /\ Reads(line) /\ ~ (mode = "shell" /\ line = "enable")
       /\ Says(<<"echo">>, mode) /\ Misuse(line)
  /\ UNCHANGED <<setup, output, agent, noise>>
ReadsBackup ==
  /\ pc \notin Ended /\ mode \in Shells /\ Reads("backup")
  /\ \E o \in Outputs : Sends(<<"echo">> \o o, mode) /\ output' = o
  /\ UNCHANGED <<setup, misused, agent, bounds>>

(* A log message: the prompt is printed once more after it *)
LogsMessage ==
  /\ pc \notin Ended /\ mode \in Shells /\ noise < MaxNoise /\ noise' = noise + 1
  /\ Says(<<>>, mode)
  /\ UNCHANGED <<setup, output, misused, typed, agent>>

-----------------------------------------------------------------------------
(* The agent *)

Users   == {"user", "userLike"}
Passes  == {"pass", "passLike"}
Prompts == Shells \cup {"like"}

(* The pieces of a sequence that are not among the dropped ones *)
Without(a, dropped) ==
  LET kept[i \in 0 .. Len(a)] ==
        IF i = 0 THEN <<>>
        ELSE IF a[i] \in dropped THEN kept[i - 1] ELSE Append(kept[i - 1], a[i])
  IN kept[Len(a)]
(* Slip: after a user name only a password is expected *)
AwaitedPasswordOnly ==
  CASE pc = "initial" -> Users \cup Passes \cup Prompts
                           \cup (IF setup.telnet THEN {"verification"} ELSE {})
    [] pc \in {"user", "enable"} -> Passes
    [] OTHER -> Prompts
(* What each call of readUntilRegex waits for *)
Awaited ==
  CASE pc = "initial" -> Users \cup Passes \cup Prompts
                           \cup (IF setup.telnet THEN {"verification"} ELSE {})
    [] pc \in {"user", "enable"} -> Passes \cup Prompts
    [] OTHER -> Prompts

(* Slip: the buffer is kept from one call to the next *)
LeftOverKept(a) == a
(* Each call starts with an empty buffer *)
LeftOver(a) == <<>>

(* A step of the dialogue: a line goes out and the next wait begins *)
Types(line, next, a) ==
  /\ pc' = next /\ typed' = Append(typed, line) /\ acc' = LeftOver(a)
  /\ early' = (early \/ wire' # <<>> \/ typed # <<>>)

(* Slip: an init command does not wait for the prompt of the one before *)
NextCommandAtOnce(a) ==
  /\ sent' = InitCommands
  /\ typed' = typed \o [i \in 1 .. InitCommands - sent |-> "init"] \o <<"backup">>
  /\ pc' = "backup" /\ acc' = LeftOver(a) /\ early' = (early \/ InitCommands > sent)
(* Slip: off by one *)
NextCommandOneMore(a) ==
  IF sent <= InitCommands THEN sent' = sent + 1 /\ Types("init", "init", a)
  ELSE Types("backup", "backup", a) /\ UNCHANGED sent
(* The init commands one by one, then the backup command *)
NextCommand(a) ==
  IF sent < InitCommands THEN sent' = sent + 1 /\ Types("init", "init", a)
  ELSE Types("backup", "backup", a) /\ UNCHANGED sent

(* Slip: SSH elevates as well, and without looking at the prompt *)
AfterLoginBlind(prompt, a) == Types("password", "enablePassword", a) /\ UNCHANGED sent
(* Only the telnet dialogue enables, on a Cisco device, at a prompt with >;
   what looks like a prompt may end in either.                              *)
AfterLogin(prompt, a) ==
  \/ /\ setup.telnet /\ setup.cisco /\ prompt \in {"shell", "like"}
     /\ Types("enable", "enable", a) /\ UNCHANGED sent
  \/ ~ (setup.telnet /\ setup.cisco /\ prompt = "shell") /\ NextCommand(a)

(* cleanSwitchOutput drops the lines that contain a command and those that
   end in # or >, be they prompts or not.                                   *)
Clean(a) == Without(a, {"echo", "mention", "marked"} \cup Prompts)

Matched(piece, a) ==
  \/ pc = "initial" /\ piece \in Users \cup {"verification"}
       /\ Types("username", "user", a) /\ UNCHANGED sent
  \/ pc \in {"initial", "user"} /\ piece \in Passes
       /\ Types("password", "password", a) /\ UNCHANGED sent
  \/ pc \in {"initial", "user", "password"} /\ piece \in Prompts
       /\ AfterLogin(piece, a)
  \/ pc = "enable" /\ piece \in Passes
       /\ Types("password", "enablePassword", a) /\ UNCHANGED sent
  \/ pc \in {"enable", "enablePassword", "init"} /\ piece \in Prompts
       /\ NextCommand(a)
  \/ /\ pc = "backup" /\ pc' = "ok" /\ acc' = Clean(a)
     /\ typed' = Append(typed, "exit") /\ UNCHANGED <<sent, early>>

(* reader.Read: any piece of what has come; the patterns are tried on all
   that is accumulated and must match at its end.                           *)
Read ==
  /\ pc \in Waiting
  /\ \E n \in 1 .. Len(wire) :
       LET a == acc \o SubSeq(wire, 1, n)
       IN /\ wire' = SubSeq(wire, n + 1, Len(wire))
          /\ IF Last(a) \in Awaited THEN Matched(Last(a), a)
             ELSE acc' = a /\ UNCHANGED <<pc, sent, early, typed>>
          /\ lured' = IF Last(a) \in Awaited /\ pc # "backup"
                        THEN lured \cup ({Last(a)} \cap LookAlikes) ELSE lured
  /\ UNCHANGED <<setup, device, bounds>>

Fails == pc' = "failed" /\ UNCHANGED <<setup, device, wire, typed, acc, sent, early, lured, bounds>>
(* The time is up: the device is slow, or it waits for the agent *)
TimesOut ==
  /\ pc \in Waiting
  /\ ~ setup.prompt \/ (wire = <<>> /\ typed = <<>>)
  /\ Fails
Disconnected == pc \in Waiting /\ mode = "closed" /\ wire = <<>> /\ Fails

Device == ReadsLogin \/ ReadsEnable \/ ReadsSecret \/ ReadsCommand \/ ReadsBackup
Agent  == Read \/ TimesOut \/ Disconnected
Next   == Device \/ Agent \/ LogsMessage

Spec     == Init /\ [][Next]_vars
FairSpec == Spec /\ WF_vars(Device) /\ WF_vars(Agent)
-----------------------------------------------------------------------------
(* What is saved is what the device answered to the backup command, less the
   lines cleanSwitchOutput drops (driver.go:255-274), however the stream is cut
   and whatever the login was: nothing of the greeting, of a login or of an
   init command gets into it.  It is all of the answer, or it ends before a
   line of it that looks like a prompt (engine.go:102-105).  Only a prompt
   nobody asked for, or text before the backup command that the agent took for
   a prompt, can make it something else.                                    *)
Unseen == {"mention", "marked", "like"}
BackupIsAnswer ==
  pc = "ok" /\ noise = 0 /\ lured = {} =>
    \E n \in 0 .. Len(output) :
      /\ acc = Without(SubSeq(output, 1, n), Unseen)
      /\ n < Len(output) => output[n + 1] = "like"

(* Until it says exit, the agent types only when the device has come to a
   prompt and has nothing more to say (engine.go:105), as long as every prompt
   is one that the device waits at and the agent took no text for one; of the
   device's own words only "user verification" is taken for a prompt that it is
   not.                                                                     *)
TypesAtPrompts ==
  noise = 0 /\ lured = {} /\ ~ (setup.telnet /\ setup.greets) => ~ early

(* The device gets the password as a user name or a command only if the agent
   took text that reads "password:", cut there, for the device's question
   (engine.go:254), or text like "xyz>" for its shell: prompts that come
   unasked, a "login:" in a banner and a failing login may bring the two out of
   step, but not to that point.                                             *)
PasswordWhereAsked == misused => lured \cap {"passLike", "like"} # {}

(* No dialogue comes to a point where each side waits for the other: with the
   right login, a device that answers in time is backed up, unless it hung up
   on a line that it took for a password, prompts came unasked or text was
   taken for one.                                                           *)
SessionSucceeds ==
  setup.prompt /\ setup.known ~>
    pc = "ok" \/ mode = "closed" \/ noise > 0 \/ lured # {}

(* "ensuring swift and complete configuration extraction" (README.md:31): what
   is saved is all of the configuration.                                    *)
BackupIsComplete == pc = "ok" => acc = output
=============================================================================
