-------------------------------- MODULE Packet --------------------------------
(***************************************************************************)
(* EncryptConfig and DecryptConfig (crypto/crypto.go) and what becomes of  *)
(* a packet that was cut short on disk.  A packet is a record of what its  *)
(* bytes say and of its size, counted in cells of the text; a file that    *)
(* was cut is its first cells.  AES-GCM gives the text back to the key and *)
(* the nonce that sealed it, if the tag is there, and an error otherwise.  *)
(***************************************************************************)
EXTENDS Naturals, Sequences

CONSTANTS Key, Nonce, BadKey     \* BadKey: not 64 hexadecimal digits

PacketAssumption == BadKey \notin Key

HeaderSize == 5     \* magic, version, flags, nonce, length
Tag        == 1
Failed(why) == [ok |-> FALSE, why |-> why]
Opened(t)   == [ok |-> TRUE, text |-> t]

EncryptConfig(t, key, nonce) ==
  [size  |-> HeaderSize + Len(t) + Tag, magic |-> "XCONF",
   nonce |-> nonce, cipherLen |-> Len(t) + Tag,
   sealed |-> [key |-> key, nonce |-> nonce, text |-> t]]
Cut(packet, size) == [packet EXCEPT !.size = size]

(* The tag is the last of the sealed bytes *)
Open(packet, key) ==
  LET whole == packet.size = HeaderSize + Len(packet.sealed.text) + Tag
  IN IF whole /\ key = packet.sealed.key /\ packet.nonce = packet.sealed.nonce
       THEN Opened(packet.sealed.text) ELSE Failed("wrong key or corrupted")

(* Slip: a packet need only be as long as its header says, at least *)
FitsAtMost(packet) == packet.size <= HeaderSize + packet.cipherLen
Fits(packet) == packet.size = HeaderSize + packet.cipherLen

DecryptConfig(packet, key) ==
  IF packet.size < HeaderSize THEN Failed("too short")
  ELSE IF packet.magic # "XCONF" THEN Failed("invalid magic")
  ELSE IF ~ Fits(packet) THEN Failed("invalid length")
  ELSE Open(packet, key)

(* xconf-agent decrypt *)
Decrypt(packet, key) ==
  IF key = BadKey THEN Failed("invalid key") ELSE DecryptConfig(packet, key)
=============================================================================
