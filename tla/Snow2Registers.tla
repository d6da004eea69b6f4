--------------------------- MODULE Snow2Registers ---------------------------
(***************************************************************************)
(* Snow2RandomEngine.cpp: the cipher of the engine.  The constructor loads *)
(* key and IV into the registers and clocks them 32 times; fillBytes       *)
(* clocks them 16 times for each batch of keystream.  The words of s stay  *)
(* where they are: each clocking overwrites the oldest one, and all taps   *)
(* are counted from it, modulo 16.                                         *)
(*                                                                         *)
(* Words are numbers, of four bytes with ByteValues values each.           *)
(***************************************************************************)
EXTENDS Naturals

CONSTANTS
  ByteValues,           \* the values of a byte: 256
  BitXor(_, _),         \* the ^ of two words
  snow_alpha_mul, snow_alphainv_mul, snow_T0, snow_T1, snow_T2, snow_T3,
                        \* the tables, from bytes to words
  Seeds,                \* the seeds considered: from 0..47 to bytes
  MaxBatches,           \* bound: the batches of keystream made
  NoWord                \* what keystream holds before the first batch

Byte == 0..(ByteValues - 1)

WordValues == ByteValues * ByteValues * ByteValues * ByteValues

Word == 0..(WordValues - 1)

ASSUME Snow2RegistersAssumption ==
  /\ ByteValues \in Nat \ {0, 1}
  /\ \A t \in {snow_alpha_mul, snow_alphainv_mul, snow_T0, snow_T1, snow_T2, snow_T3} :
       t \in [Byte -> Word]
  /\ Seeds \subseteq [0..47 -> Byte]
  /\ MaxBatches \in Nat
  /\ NoWord \notin Word

ASSUME BitXorAssumption ==
  \A v, w \in Word : BitXor(v, w) \in Word /\ BitXor(v, BitXor(v, w)) = w

VARIABLES
  stage,        \* "mix": the constructor; "clock": making a batch; "idle"
  seed,         \* the seed of the engine
  s, r1, r2,    \* the registers
  loopCounter,  \* the outer loop of the constructor
  word,         \* i: the word a loop is at
  keystream,    \* the batch
  made          \* history: batches made

registers == <<s, r1, r2>>

registersVars == <<stage, seed, registers, loopCounter, word, keystream, made>>

-----------------------------------------------------------------------------
(* Words.                                                                  *)

\* 1 << 8 * k
Weight(k) ==
  CASE k = 0 -> 1
    [] k = 1 -> ByteValues
    [] k = 2 -> ByteValues * ByteValues
    [] k = 3 -> ByteValues * ByteValues * ByteValues

\* (v >> 8 * k) & 0xff
ByteOf(v, k) == (v \div Weight(k)) % ByteValues

\* ~v
Complement(v) == WordValues - 1 - v

\* + of two uint32_t
Plus(v, w) == (v + w) % WordValues

a_mul(v) ==
  BitXor((v * ByteValues) % WordValues, snow_alpha_mul[ByteOf(v, 3)])

ainv_mul(v) == BitXor(v \div ByteValues, snow_alphainv_mul[ByteOf(v, 0)])

\* What NEWRS makes of r1.
Substitute(v) ==
  BitXor(BitXor(BitXor(snow_T0[ByteOf(v, 0)],
                       snow_T1[ByteOf(v, 1)]),
                snow_T2[ByteOf(v, 1)]),
         snow_T3[ByteOf(v, 3)])

-----------------------------------------------------------------------------
(* The loading of a seed sd: a key of 32 bytes and an IV of 16.            *)

\* (v << 8) | b
AppendByte(v, b) == v * ByteValues + b

\* The word of four bytes, the most significant one first.
WordOf(a, b, c, d) == AppendByte(AppendByte(AppendByte(a, b), c), d)

\* keyShift<4 * j>: the key's words are big-endian.
KeyWord(sd, j) == WordOf(sd[4 * j], sd[4 * j + 1], sd[4 * j + 2], sd[4 * j + 3])

\* iv[j], copied to memory: on a little-endian machine.
IvWord(sd, j) == WordOf(sd[4 * j + 35], sd[4 * j + 34], sd[4 * j + 33], sd[4 * j + 32])

\* Defect: the loading of a 128-bit key.
LoadKeyOf128Bits(sd) ==
  [k \in 0..15 |->
     CASE k \in 12..15 -> KeyWord(sd, 15 - k)
       [] k \in 8..11  -> Complement(KeyWord(sd, 11 - k))
       [] k \in 4..7   -> KeyWord(sd, 7 - k)
       [] k \in 0..3   -> Complement(KeyWord(sd, 3 - k))]

\* The key fills the upper half, its bitwise inverse the lower one.
LoadKey(sd) ==
  [k \in 0..15 |-> IF k \in 8..15 THEN KeyWord(sd, 15 - k)
                                  ELSE Complement(KeyWord(sd, 7 - k))]

\* The words that the IV is mixed into, and which word of it.
IvTap == [k \in {15, 12, 10, 9} |->
            CASE k = 15 -> 0 [] k = 12 -> 1 [] k = 10 -> 2 [] k = 9 -> 3]

Load(sd) ==
  [k \in 0..15 |-> IF k \in DOMAIN IvTap THEN BitXor(LoadKey(sd)[k], IvWord(sd, IvTap[k]))
                                         ELSE LoadKey(sd)[k]]

RegistersInit ==
  /\ seed \in Seeds
  /\ s = Load(seed)
  /\ r1 = 0
  /\ r2 = 0
  /\ stage = "mix"
  /\ loopCounter = 0
  /\ word = 0
  /\ keystream = [k \in 0..15 |-> NoWord]
  /\ made = 0

-----------------------------------------------------------------------------
(* Clocking.                                                               *)

\* The word k places after the one that the clocking overwrites.
Tap(k) == s[(word + k) % 16]

NEWRS ==
  /\ r1' = Plus(r2, Tap(5))
  /\ r2' = Substitute(r1)

Feedback == BitXor(BitXor(a_mul(s[word]), Tap(2)), ainv_mul(Tap(11)))

MixClock ==
  /\ stage = "mix"
  /\ s' = [s EXCEPT ![word] = BitXor(BitXor(Feedback, Plus(r1, Tap(15))), r2)]
  /\ NEWRS
  /\ word' = (word + 1) % 16
  /\ loopCounter' = IF word = 15 THEN loopCounter + 1 ELSE loopCounter
  /\ stage' = IF word = 15 /\ loopCounter = 1 THEN "idle" ELSE "mix"
  /\ UNCHANGED <<seed, keystream, made>>

\* fillBytes wants a byte of the next batch.
StartBatch ==
  /\ stage = "idle"
  /\ made < MaxBatches
  /\ stage' = "clock"
  /\ word' = 0
  /\ UNCHANGED <<seed, registers, loopCounter, keystream, made>>

\* Defect: the word is combined with the one just overwritten.
KeystreamClockStale ==
  /\ stage = "clock"
  /\ s' = [s EXCEPT ![word] = Feedback]
  /\ NEWRS
  /\ keystream' = [keystream EXCEPT ![word] = BitXor(BitXor(Plus(r1', s'[word]), r2'), s[word])]
  /\ word' = (word + 1) % 16
  /\ stage' = IF word = 15 THEN "idle" ELSE "clock"
  /\ made' = IF word = 15 THEN made + 1 ELSE made
  /\ UNCHANGED <<seed, loopCounter>>

KeystreamClock ==
  /\ stage = "clock"
  /\ s' = [s EXCEPT ![word] = Feedback]
  /\ NEWRS
  /\ keystream' = [keystream EXCEPT ![word] = BitXor(BitXor(Plus(r1', s'[word]), r2'), Tap(1))]
  /\ word' = (word + 1) % 16
  /\ stage' = IF word = 15 THEN "idle" ELSE "clock"
  /\ made' = IF word = 15 THEN made + 1 ELSE made
  /\ UNCHANGED <<seed, loopCounter>>

RegistersNext == MixClock \/ StartBatch \/ KeystreamClock

RegistersSpec == RegistersInit /\ [][RegistersNext]_registersVars

-----------------------------------------------------------------------------
(* Properties.                                                             *)

\* Loading merges no two seeds: the words of the IV only go into words whose
\* inverse keeps the key.
SeedIsKept ==
  stage = "mix" /\ loopCounter = 0 /\ word = 0 =>
    \A sd \in Seeds : Load(sd) = s => sd = seed

\* What the circular use of s amounts to: the word that is overwritten next is
\* the oldest one of a shift register.
Cipher == INSTANCE Snow2Cipher WITH
  Loaded <- {Load(sd) : sd \in Seeds},
  sigma  <- [k \in 0..15 |-> Tap(k)],
  clocks <- IF stage = "mix" THEN 16 * loopCounter + word ELSE 32,
  symbol <- keystream[(word + 15) % 16]

CipherSpec == Cipher!Spec

\* "TABLES FOR STREAM CIPHER SNOW 2.0 ... as well as the S-box": the S-box is a
\* permutation of the words, so that no clocking forgets a bit of r1.
SubstitutionLosesNothing ==
  \A v \in Word : Substitute(v) = Substitute(r1) => v = r1
=============================================================================
