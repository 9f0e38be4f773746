-------------------------------- MODULE Lfsr --------------------------------
(***************************************************************************)
(* The colour generator of assign_colors (state.rs): the Lfsr struct, a   *)
(* Fibonacci shift register whose width is chosen from the number of      *)
(* kinds to colour, and compute_color, which turns a register value into  *)
(* a fully saturated RGB colour.  Pure operators; the register is a       *)
(* natural below 2^bits and the shifts and masks are the equivalent       *)
(* divisions and remainders.                                              *)
(***************************************************************************)
EXTENDS Naturals, TLC

(* seed_configuration: a 24-bit constant whose top bits seed the register. *)
Seed == 10810275   \* 0b101001001111001110100011

(* The taps match of Lfsr::new; widths outside 2..24 reach unreachable!(). *)
TapTable ==
    [b \in 2..24 |->
        CASE b = 2  -> {2, 1}       [] b = 3  -> {3, 2}
          [] b = 4  -> {4, 3}       [] b = 5  -> {5, 3}
          [] b = 6  -> {6, 5}       [] b = 7  -> {7, 6}
          [] b = 8  -> {8, 6, 5, 4} [] b = 9  -> {9, 5}
          [] b = 10 -> {10, 7}      [] b = 11 -> {11, 9}
          [] b = 12 -> {12, 11, 10, 4}
          [] b = 13 -> {13, 12, 11, 8}
          [] b = 14 -> {14, 13, 12, 2}
          [] b = 15 -> {15, 14}     [] b = 16 -> {16, 15, 13, 4}
          [] b = 17 -> {17, 14}     [] b = 18 -> {18, 11}
          [] b = 19 -> {19, 18, 17, 14}
          [] b = 20 -> {20, 17}     [] b = 21 -> {21, 19}
          [] b = 22 -> {22, 21}     [] b = 23 -> {23, 18}
          [] OTHER  -> {24, 23, 22, 17}]

(* floor(log2(size)) + 1, i.e. the bit length of size.  log2(0) is -inf, *)
(* which the `as u32` cast saturates to 0, so size 0 also gives 1.        *)
RECURSIVE BitLength(_)
BitLength(n) == IF n = 0 THEN 0 ELSE 1 + BitLength(n \div 2)

(* Mutant: the width is floor(log2(size)) without the + 1.               *)
NeededBitsNoPlusOne(size) == IF size = 0 THEN 0 ELSE BitLength(size) - 1

NeededBits(size) == IF size = 0 THEN 1 ELSE BitLength(size)

(* Lfsr::new seeds the register with the top `bits` bits of the seed;   *)
(* max_value is 2^bits.                                                   *)
HasTaps(bits) == bits \in DOMAIN TapTable

InitialRegister(bits) == Seed \div 2^(24 - bits)

(* Bit t of the register counted from the top: (register >> (bits - t)) & 1. *)
TapBit(reg, bits, t) == (reg \div 2^(bits - t)) % 2

RECURSIVE XorOf(_, _, _)
XorOf(reg, bits, taps) ==
    IF taps = {} THEN 0
    ELSE LET t == CHOOSE x \in taps : TRUE
         IN  (TapBit(reg, bits, t) + XorOf(reg, bits, taps \ {t})) % 2

(* Lfsr::next: shift right and feed the parity of the taps in at the top. *)
LfsrNext(reg, bits) == reg \div 2 + XorOf(reg, bits, TapTable[bits]) * 2^(bits - 1)

(* compute_color(step, num_steps): hue h = step / num_steps, six sectors  *)
(* of the HSV wheel at full saturation and value, channels floored to u8. *)
(* num_steps is a power of two, so every f64 operation here is exact and  *)
(* the integer form below gives the same bytes.                           *)
ComputeColor(step, numSteps) ==
    LET i == (6 * step) \div numSteps
        f == (255 * ((6 * step) % numSteps)) \div numSteps
        q == (255 * (numSteps - ((6 * step) % numSteps))) \div numSteps
    IN  CASE i % 6 = 0 -> <<255, f, 0>>
          [] i % 6 = 1 -> <<q, 255, 0>>
          [] i % 6 = 2 -> <<0, 255, f>>
          [] i % 6 = 3 -> <<0, q, 255>>
          [] i % 6 = 4 -> <<f, 0, 255>>
          [] OTHER     -> <<255, 0, q>>

(* The colours assign_colors gives meta-task variants 1, 2, 6, 7, 8, 9.  *)
FixedColor ==
    (1 :> <<0, 102, 0>>) @@ (2 :> <<51, 51, 153>>) @@ (6 :> <<153, 0, 0>>)
        @@ (7 :> <<0, 0, 255>>) @@ (8 :> <<0, 153, 0>>) @@ (9 :> <<0, 153, 0>>)

=============================================================================
