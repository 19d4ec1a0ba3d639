----------------------------- MODULE SpeedData -----------------------------
(***************************************************************************)
(* speed-data.c and the trn_hash of speed.c: the measured tables of the    *)
(* three trains and the distances and times computed from them.  Lengths   *)
(* are in micrometres, times in ticks of 10 ms, speeds are 0 (stopped), 7  *)
(* (LO) and 9 (MED), the ones a route can ask for, and 11.                 *)
(***************************************************************************)
EXTENDS Integers, Sequences

ALL_TRNS == <<24, 58, 77>>
N_SHORT_MOVES == 18
SHORT_MOVES_BASE == 150
SHORT_MOVES_STEPS == 25

trn_hash(trn) == CASE trn = 24 -> 1 [] trn = 58 -> 2 [] trn = 77 -> 3
spd_hash(s) == IF s = 0 THEN 1 ELSE ((s - 5) \div 2) + 1

\* speed_data_init: rows are trains, columns speeds; 0 where memset left it
velocity_data == << <<0, 162083, 279550, 407185>>,
                    <<0, 144318, 247857, 366255>>,
                    <<0, 181496, 280784, 403022>> >>
acceleration_data ==
  << << <<0, 83762, 99929, 0>>, <<0, 0, 114075, 166944>>, <<0, -49906, 0, 135447>>, <<0, -95610, -55904, 0>> >>,
     << <<0, 82661, 88112, 0>>, <<0, 0, 76213, 115697>>, <<0, -39682, 0, 107489>>, <<0, -80692, -44940, 0>> >>,
     << <<0, 61097, 72385, 0>>, <<0, 0, 55562, 81505>>, <<0, -32683, 0, 71978>>, <<0, -69310, -37873, 0>> >> >>
stopping_data == << <<0, 135168, 307080, 583030>>,
                    <<0, 127966, 279043, 545819>>,
                    <<0, 241126, 438894, 768428>> >>
\* Entry 16 of train 24 is assigned twice and entry 17 never: it is 0
short_moves ==
  << <<195000, 245000, 270000, 320000, 355000, 400000, 440000, 470000, 520000,
       570000, 600000, 640000, 680000, 730000, 770000, 815000, 900000, 0>>,
     <<170000, 210000, 250000, 285000, 320000, 365000, 400000, 430000, 475000,
       530000, 555000, 590000, 630000, 670000, 700000, 750000, 780000, 810000>>,
     <<185000, 235000, 270000, 350000, 390000, 400000, 440000, 490000, 520000,
       570000, 620000, 670000, 710000, 750000, 820000, 850000, 940000, 980000>> >>

\* x * y \div z in 64 bits: the quotient and the remainder, built up bit by bit
\* of y so that no intermediate value leaves 32 bits
MulDiv(x, y, z) ==
  LET f[n \in 0 .. y] ==
        IF n = 0 THEN <<0, 0>>
        ELSE LET h == f[n \div 2]
                 r == 2 * h[2] + (n % 2) * (x % z)
             IN <<2 * h[1] + (n % 2) * (x \div z) + (r \div z), r % z>>
  IN f[y][1]

get_velocity(trn, s) == velocity_data[trn_hash(trn)][spd_hash(s)]
get_acceleration(trn, s1, s2) == acceleration_data[trn_hash(trn)][spd_hash(s1)][spd_hash(s2)]
get_stopping_distance(trn, s) == stopping_data[trn_hash(trn)][spd_hash(s)]

\* From rest or between equal speeds, as routes ask for it: v^2 / 2a
get_distance_from_acceleration(trn, s1, s2) ==
  IF s1 = s2 THEN 0
  ELSE MulDiv(get_velocity(trn, s2), get_velocity(trn, s2), 2 * get_acceleration(trn, s1, s2))
get_time_from_acceleration(trn, s1, s2) ==
  IF s1 = s2 THEN 0
  ELSE (100 * (get_velocity(trn, s2) - get_velocity(trn, s1))) \div get_acceleration(trn, s1, s2)
get_time_from_velocity_um(trn, dist, s) == (100 * dist) \div get_velocity(trn, s)

\* From rest: the root of d = 1/2 * a * t^2, in whole ticks
MAX_TICKS == 1000
estimate_initial_time_acceleration(trn, s2, dist) ==
  LET square == MulDiv(20000, dist, get_acceleration(trn, 0, s2))
  IN CHOOSE t \in 0 .. MAX_TICKS : t * t <= square /\ (t + 1) * (t + 1) > square

\* The ticks between start and stop of a short move, or -1 when the table has
\* no two entries around the distance.  A distance above all entries reads past
\* the row of the train: OUT, as nothing is known of what is there.
OUT == -2
get_short_move_delay(trn, goal) ==
  LET row == short_moves[trn_hash(trn)]
      above == {i \in 1 .. N_SHORT_MOVES : goal <= row[i]}
      i == CHOOSE j \in above : \A k \in above : j <= k
      slope == ((goal - row[i - 1]) * 100) \div (row[i] - row[i - 1])
  IN CASE above = {} \/ goal < 0 -> OUT
       [] above # {} /\ i = 1 /\ goal >= 0 -> -1
       [] OTHER -> (SHORT_MOVES_STEPS * slope) \div 100 + SHORT_MOVES_BASE + (i - 2) * SHORT_MOVES_STEPS
=============================================================================
