------------------------------ MODULE HashSlots ------------------------------
(***************************************************************************)
(* The hash slots of keys, and the prefix with which SmartRedis addresses a    *)
(* shard: bytes whose CRC16 is a slot of the shard (rediscluster.cpp).         *)
(*                                                                         *)
(* Keys and prefixes are sequences of bytes.  A polynomial over two elements,   *)
(* as the code keeps it in the bits of an integer, is the set of the exponents  *)
(* that it has; to add two is to take those that one of them has.             *)
(***************************************************************************)
EXTENDS Integers, Sequences, SequencesExt, FiniteSets, FiniteSetsExt

LOCAL Brace == 123
LOCAL Close == 125
LOCAL Period == 46

Bits(n, count) == {i \in 0 .. count - 1 : (n \div 2 ^ i) % 2 = 1}
Number(bits) ==
  LET sum[i \in 0 .. 16] == IF i = 16 THEN 0 ELSE sum[i + 1] + (IF i \in bits THEN 2 ^ i ELSE 0)
  IN sum[0]
Plus(p, q) == (p \ q) \cup (q \ p)
Poly == {0, 5, 12, 16}
Times(p, i) == {e + i : e \in p}

(***************************************************************************)
(* The inverse: multiples of the polynomial are added until the 16 lowest bits  *)
(* are clear, and again while the bytes above them have a brace.               *)
(***************************************************************************)
CrcXorShift(remainder, initialShift, nBits) ==
  LET shifted[n \in 0 .. nBits] ==
        IF n = 0 THEN remainder
        ELSE LET r == shifted[n - 1]  i == initialShift + n - 1 IN
             IF i \in r THEN Plus(r, Times(Poly, i)) ELSE r
  IN shifted[nBits]
Character(bits, k) == Number({i - 16 - 8 * k : i \in bits \cap (16 + 8 * k .. 23 + 8 * k)})
NChars(bitShifts) == (bitShifts + 7) \div 8
(* Mutant of IsValidInverse: only braces that open are looked for.                  *)
NoneOpens(bits, nChars) == \A k \in 0 .. nChars - 1 : Character(bits, k) # Brace

IsValidInverse(bits, nChars) == \A k \in 0 .. nChars - 1 : Character(bits, k) \notin {Brace, Close}

\* 16 shifts clear the bits of the slot; the code gives up after 25.
Shifted(slot) ==
  LET shifted[n \in 16 .. 25] ==
        IF n = 16 THEN CrcXorShift(Bits(slot, 16), 0, 16) ELSE CrcXorShift(shifted[n - 1], n - 1, 1)
  IN shifted
GetCrc16Prefix(slot) ==
  LET shifted == Shifted(slot)
      n == Min({k \in DOMAIN shifted : IsValidInverse(shifted[k], NChars(k))})
  IN [i \in 1 .. NChars(n) |-> Character(shifted[n], NChars(n) - i)]

(***************************************************************************)
(* The slot of a key is that of what stands in its braces.  The server looks    *)
(* for a brace that closes behind the first that opens, with something between.  *)
(***************************************************************************)
Positions(key, byte) == {i \in DOMAIN key : key[i] = byte}
Find(key, byte) == Min(Positions(key, byte))
HasHashTag(key) ==
  Positions(key, Brace) # {} /\ Positions(key, Close) # {} /\ Find(key, Close) > Find(key, Brace)
GetHashTag(key) ==
  IF HasHashTag(key) THEN SubSeq(key, Find(key, Brace) + 1, Find(key, Close) - 1) ELSE key
ServerTag(key) ==
  LET behind == {i \in Positions(key, Close) : \E j \in Positions(key, Brace) : j < i}
  IN IF behind # {} /\ Min(behind) > Find(key, Brace) + 1
     THEN SubSeq(key, Find(key, Brace) + 1, Min(behind) - 1) ELSE key

Remainder(poly) ==
  LET rest[i \in 16 .. 24] ==
        IF i = 24 THEN poly
        ELSE LET r == rest[i + 1] IN IF i \in r THEN Plus(r, Times(Poly, i - 16)) ELSE r
  IN rest[16]
Crc16(bytes) ==
  Number(FoldLeft(LAMBDA crc, byte : Remainder(Plus(Times(crc, 8), Times(Bits(byte, 8), 16))), {}, bytes))
SlotOf(tag) == Crc16(tag) % 16384
GetHashSlot(key) == SlotOf(GetHashTag(key))
ServerSlot(key) == SlotOf(ServerTag(key))

\* The names of temporary tensors, and the first name of a model or script on a shard.
GetTmpName(prefix, name) == <<Brace>> \o prefix \o <<Close, Period>> \o name \o <<Period, 84, 77, 80>>
NameOnShard(prefix, name) == <<Brace>> \o prefix \o <<Close, Period>> \o name
=============================================================================
