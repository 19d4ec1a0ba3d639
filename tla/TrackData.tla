----------------------------- MODULE TrackData -----------------------------
(***************************************************************************)
(* track-data.c: the two tracks, one row per track_node, in the order of   *)
(* the array track[].  An index of a row is an index of track[]: the rows  *)
(* that follow give, per node, its name, the number of a switch, the index *)
(* of the node in the opposite direction, the node each edge leads to with *)
(* its length in millimetres, and the segment ahead of the node.  The      *)
(* number of a sensor is its index.  The fields edge[].src (the node       *)
(* itself) and edge[].reverse are read by no code and left out.            *)
(***************************************************************************)
EXTENDS Integers, Sequences

TRACK_MAX == 140      \* the size of the array track[]
N_SEGMENTS == 31      \* the size of the track server's array of segments

DIR_AHEAD == 1        \* edge[DIR_AHEAD] and edge[DIR_STRAIGHT], from 1 here
DIR_CURVED == 2

Edge(dest, dist) == [dest |-> dest, dist |-> dist]
TrackNode(name, type, num, reverse, edge, segmentId) ==
  [name |-> name, type |-> type, num |-> num, reverse |-> reverse, edge |-> edge,
   segmentId |-> segmentId]

\* num is 0 where the code assigns none: memset has cleared it
SensorPlain(name, reverse, dest, dist, segmentId) ==  \* faulty: the segment is not assigned
  TrackNode(name, "SENSOR", 0, reverse, <<Edge(dest, dist)>>, 0)
Sensor(name, reverse, dest, dist, segmentId) ==
  TrackNode(name, "SENSOR", 0, reverse, <<Edge(dest, dist)>>, segmentId)
Branch(name, num, reverse, straight, dist, curved, curvedDist, segmentId) ==
  TrackNode(name, "BRANCH", num, reverse, <<Edge(straight, dist), Edge(curved, curvedDist)>>, segmentId)
Merge(name, num, reverse, dest, dist, segmentId) ==
  TrackNode(name, "MERGE", num, reverse, <<Edge(dest, dist)>>, segmentId)
Enter(name, reverse, dest, dist, segmentId) ==
  TrackNode(name, "ENTER", 0, reverse, <<Edge(dest, dist)>>, segmentId)
Exit(name, reverse, segmentId) == TrackNode(name, "EXIT", 0, reverse, <<>>, segmentId)

-----------------------------------------------------------------------------
(* init_track_a                                                            *)

\* track[0] to track[13]
track_a0 ==
  << Sensor("A1", 1, 103, 231, 11),
     Sensor("A2", 0, 133, 504, 28),
     Sensor("A3", 3, 106, 43, 11),
     Sensor("A4", 2, 31, 437, 10),
     Sensor("A5", 5, 85, 231, 4),
     Sensor("A6", 4, 25, 642, 3),
     Sensor("A7", 7, 27, 470, 2),
     Sensor("A8", 6, 83, 229, 4),
     Sensor("A9", 9, 23, 289, 1),
     Sensor("A10", 8, 81, 229, 4),
     Sensor("A11", 11, 81, 518, 4),
     Sensor("A12", 10, 139, 43, 0),
     Sensor("A13", 13, 87, 236, 11),
     Sensor("A14", 12, 131, 325, 29) >>

\* track[14] to track[28]
track_a14 ==
  << Sensor("A15", 15, 135, 144, 30),
     Sensor("A16", 14, 87, 417, 11),
     Sensor("B1", 17, 61, 404, 17),
     Sensor("B2", 16, 111, 231, 18),
     Sensor("B3", 19, 33, 201, 26),
     Sensor("B4", 18, 111, 239, 18),
     Sensor("B5", 21, 50, 404, 20),
     Sensor("B6", 20, 105, 231, 19),
     Sensor("B7", 23, 9, 289, 1),
     Sensor("B8", 22, 137, 43, 1),
     Sensor("B9", 25, 4, 642, 3),
     Sensor("B10", 24, 141, 50, 3),
     Sensor("B11", 27, 7, 470, 2),
     Sensor("B12", 26, 143, 50, 2),
     Sensor("B13", 29, 119, 239, 24) >>

\* track[29] to track[43]
track_a29 ==
  << Sensor("B14", 28, 63, 201, 23),
     Sensor("B15", 31, 2, 437, 10),
     Sensor("B16", 30, 108, 50, 9),
     Sensor("C1", 33, 19, 201, 26),
     Sensor("C2", 32, 117, 246, 24),
     Sensor("C3", 35, 129, 514, 6),
     Sensor("C4", 34, 89, 239, 5),
     Sensor("C5", 37, 90, 61, 5),
     Sensor("C6", 36, 109, 433, 9),
     Sensor("C7", 39, 115, 231, 5),
     Sensor("C8", 38, 84, 128, 4),
     Sensor("C9", 41, 109, 326, 9),
     Sensor("C10", 40, 110, 128, 18),
     Sensor("C11", 43, 104, 120, 19),
     Sensor("C12", 42, 107, 333, 11) >>

\* track[44] to track[58]
track_a44 ==
  << Sensor("C13", 45, 70, 875, 12),
     Sensor("C14", 44, 100, 43, 11),
     Sensor("C15", 47, 59, 404, 8),
     Sensor("C16", 46, 91, 239, 5),
     Sensor("D1", 49, 121, 246, 24),
     Sensor("D2", 48, 67, 201, 25),
     Sensor("D3", 51, 99, 239, 21),
     Sensor("D4", 50, 21, 404, 20),
     Sensor("D5", 53, 69, 376, 22),
     Sensor("D6", 52, 97, 239, 14),
     Sensor("D7", 55, 97, 309, 14),
     Sensor("D8", 54, 71, 384, 13),
     Sensor("D9", 57, 75, 369, 7),
     Sensor("D10", 56, 95, 316, 14),
     Sensor("D11", 59, 47, 404, 8) >>

\* track[59] to track[73]
track_a59 ==
  << Sensor("D12", 58, 93, 231, 5),
     Sensor("D13", 61, 17, 404, 17),
     Sensor("D14", 60, 113, 239, 16),
     Sensor("D15", 63, 28, 201, 23),
     Sensor("D16", 62, 113, 246, 16),
     Sensor("E1", 65, 123, 239, 24),
     Sensor("E2", 64, 78, 201, 27),
     Sensor("E3", 67, 48, 201, 25),
     Sensor("E4", 66, 99, 239, 21),
     Sensor("E5", 69, 53, 376, 22),
     Sensor("E6", 68, 98, 50, 21),
     Sensor("E7", 71, 54, 384, 13),
     Sensor("E8", 70, 45, 875, 12),
     Sensor("E9", 73, 95, 239, 14),
     Sensor("E10", 72, 76, 376, 15) >>

\* track[74] to track[86]
track_a74 ==
  << Sensor("E11", 75, 57, 369, 7),
     Sensor("E12", 74, 92, 50, 5),
     Sensor("E13", 77, 112, 43, 16),
     Sensor("E14", 76, 72, 376, 15),
     Sensor("E15", 79, 105, 246, 19),
     Sensor("E16", 78, 64, 201, 27),
     Branch("BR1", 1, 81, 11, 518, 8, 229, 4),
     Merge("MR1", 1, 80, 83, 188, 4),
     Branch("BR2", 2, 83, 80, 188, 6, 229, 4),
     Merge("MR2", 2, 82, 85, 185, 4),
     Branch("BR3", 3, 85, 5, 231, 82, 185, 4),
     Merge("MR3", 3, 84, 38, 128, 4),
     Branch("BR4", 4, 87, 14, 417, 13, 236, 11) >>

\* track[87] to track[98]
track_a87 ==
  << Merge("MR4", 4, 86, 103, 185, 11),
     Branch("BR5", 5, 89, 34, 239, 93, 371, 5),
     Merge("MR5", 5, 88, 114, 155, 5),
     Branch("BR6", 6, 91, 46, 239, 115, 371, 5),
     Merge("MR6", 6, 90, 37, 61, 5),
     Branch("BR7", 7, 93, 58, 231, 89, 371, 5),
     Merge("MR7", 7, 92, 74, 50, 5),
     Branch("BR8", 8, 95, 56, 316, 73, 239, 14),
     Merge("MR8", 8, 94, 96, 155, 14),
     Branch("BR9", 9, 97, 55, 309, 52, 239, 14),
     Merge("MR9", 9, 96, 94, 155, 14),
     Branch("BR10", 10, 99, 51, 239, 66, 239, 21) >>

\* track[99] to track[110]
track_a99 ==
  << Merge("MR10", 10, 98, 68, 50, 21),
     Branch("BR11", 11, 101, 102, 188, 107, 495, 11),
     Merge("MR11", 11, 100, 44, 43, 11),
     Branch("BR12", 12, 103, 1, 231, 86, 185, 11),
     Merge("MR12", 12, 102, 101, 188, 11),
     Branch("BR13", 13, 105, 20, 231, 79, 246, 19),
     Merge("MR13", 13, 104, 43, 120, 19),
     Branch("BR14", 14, 107, 101, 495, 42, 333, 11),
     Merge("MR14", 14, 106, 3, 43, 11),
     Branch("BR15", 15, 109, 36, 433, 41, 326, 9),
     Merge("MR15", 15, 108, 30, 50, 9),
     Branch("BR16", 16, 111, 16, 231, 18, 239, 18) >>

\* track[111] to track[122]
track_a111 ==
  << Merge("MR16", 16, 110, 40, 128, 18),
     Branch("BR17", 17, 113, 60, 239, 62, 246, 16),
     Merge("MR17", 17, 112, 77, 43, 16),
     Branch("BR18", 18, 115, 39, 231, 91, 371, 5),
     Merge("MR18", 18, 114, 88, 155, 5),
     Branch("BR153", 153, 117, 125, 253, 32, 246, 24),
     Merge("MR153", 153, 116, 119, 0, 24),
     Branch("BR154", 154, 119, 116, 0, 29, 239, 24),
     Merge("MR154", 154, 118, 122, 0, 24),
     Branch("BR155", 155, 121, 127, 282, 49, 246, 24),
     Merge("MR155", 155, 120, 123, 0, 24),
     Branch("BR156", 156, 123, 120, 0, 65, 239, 24) >>

\* track[123] to track[143]
track_a123 ==
  << Merge("MR156", 156, 122, 118, 0, 24),
     Enter("EN1", 125, 117, 253, 24),
     Exit("EX1", 124, 24),
     Enter("EN2", 127, 121, 282, 24),
     Exit("EX2", 126, 24),
     Enter("EN3", 129, 35, 514, 6),
     Exit("EX3", 128, 6),
     Enter("EN4", 131, 12, 325, 29),
     Exit("EX4", 130, 29),
     Enter("EN5", 133, 0, 504, 28),
     Exit("EX5", 132, 28),
     Enter("EN6", 135, 15, 144, 30),
     Exit("EX6", 134, 30),
     Enter("EN7", 137, 22, 43, 1),
     Exit("EX7", 136, 1),
     Enter("EN8", 139, 10, 43, 0),
     Exit("EX8", 138, 0),
     Enter("EN9", 141, 24, 50, 3),
     Exit("EX9", 140, 3),
     Enter("EN10", 143, 26, 50, 2),
     Exit("EX10", 142, 2) >>

track_a == track_a0 \o track_a14 \o track_a29 \o track_a44 \o track_a59 \o track_a74
           \o track_a87 \o track_a99 \o track_a111 \o track_a123

-----------------------------------------------------------------------------
(* init_track_b                                                            *)

\* track[0] to track[13]
track_b0 ==
  << Sensor("A1", 1, 103, 231, 11),
     Sensor("A2", 0, 133, 504, 28),
     Sensor("A3", 3, 106, 43, 11),
     Sensor("A4", 2, 31, 437, 10),
     Sensor("A5", 5, 85, 231, 4),
     Sensor("A6", 4, 25, 642, 3),
     Sensor("A7", 7, 27, 470, 2),
     Sensor("A8", 6, 83, 229, 4),
     Sensor("A9", 9, 23, 289, 1),
     Sensor("A10", 8, 81, 229, 4),
     Sensor("A11", 11, 81, 282, 4),
     Sensor("A12", 10, 15, 814, 0),
     Sensor("A13", 13, 87, 236, 11),
     Sensor("A14", 12, 131, 325, 29) >>

\* track[14] to track[28]
track_b14 ==
  << Sensor("A15", 15, 10, 814, 0),
     Sensor("A16", 14, 87, 275, 11),
     Sensor("B1", 17, 61, 404, 17),
     Sensor("B2", 16, 111, 231, 18),
     Sensor("B3", 19, 33, 201, 26),
     Sensor("B4", 18, 111, 239, 18),
     Sensor("B5", 21, 50, 404, 20),
     Sensor("B6", 20, 105, 231, 19),
     Sensor("B7", 23, 9, 289, 1),
     Sensor("B8", 22, 135, 43, 1),
     Sensor("B9", 25, 4, 642, 3),
     Sensor("B10", 24, 137, 50, 3),
     Sensor("B11", 27, 7, 470, 2),
     Sensor("B12", 26, 139, 50, 2),
     Sensor("B13", 29, 119, 239, 24) >>

\* track[29] to track[43]
track_b29 ==
  << Sensor("B14", 28, 63, 201, 23),
     Sensor("B15", 31, 2, 437, 10),
     Sensor("B16", 30, 108, 50, 9),
     Sensor("C1", 33, 19, 201, 26),
     Sensor("C2", 32, 117, 246, 24),
     Sensor("C3", 35, 129, 514, 6),
     Sensor("C4", 34, 89, 239, 5),
     Sensor("C5", 37, 90, 61, 5),
     Sensor("C6", 36, 109, 433, 9),
     Sensor("C7", 39, 115, 231, 5),
     Sensor("C8", 38, 84, 128, 4),
     Sensor("C9", 41, 109, 326, 9),
     Sensor("C10", 40, 110, 128, 18),
     Sensor("C11", 43, 104, 120, 19),
     Sensor("C12", 42, 107, 333, 11) >>

\* track[44] to track[58]
track_b44 ==
  << Sensor("C13", 45, 70, 780, 12),
     Sensor("C14", 44, 100, 50, 11),
     Sensor("C15", 47, 59, 404, 8),
     Sensor("C16", 46, 91, 239, 5),
     Sensor("D1", 49, 121, 246, 24),
     Sensor("D2", 48, 67, 201, 25),
     Sensor("D3", 51, 99, 239, 21),
     Sensor("D4", 50, 21, 404, 20),
     Sensor("D5", 53, 69, 282, 22),
     Sensor("D6", 52, 97, 229, 14),
     Sensor("D7", 55, 97, 309, 14),
     Sensor("D8", 54, 71, 376, 13),
     Sensor("D9", 57, 75, 282, 7),
     Sensor("D10", 56, 95, 316, 14),
     Sensor("D11", 59, 47, 404, 8) >>

\* track[59] to track[73]
track_b59 ==
  << Sensor("D12", 58, 93, 231, 5),
     Sensor("D13", 61, 17, 404, 17),
     Sensor("D14", 60, 113, 239, 16),
     Sensor("D15", 63, 28, 201, 23),
     Sensor("D16", 62, 113, 246, 16),
     Sensor("E1", 65, 123, 239, 24),
     Sensor("E2", 64, 78, 201, 27),
     Sensor("E3", 67, 48, 201, 25),
     Sensor("E4", 66, 99, 239, 21),
     Sensor("E5", 69, 53, 282, 22),
     Sensor("E6", 68, 98, 50, 21),
     Sensor("E7", 71, 54, 376, 13),
     Sensor("E8", 70, 45, 780, 12),
     Sensor("E9", 73, 95, 239, 14),
     Sensor("E10", 72, 76, 282, 15) >>

\* track[74] to track[86]
track_b74 ==
  << Sensor("E11", 75, 57, 282, 7),
     Sensor("E12", 74, 92, 43, 5),
     Sensor("E13", 77, 112, 43, 16),
     Sensor("E14", 76, 72, 282, 15),
     Sensor("E15", 79, 105, 246, 19),
     Sensor("E16", 78, 64, 201, 27),
     Branch("BR1", 1, 81, 11, 282, 8, 229, 4),
     Merge("MR1", 1, 80, 83, 188, 4),
     Branch("BR2", 2, 83, 80, 188, 6, 229, 4),
     Merge("MR2", 2, 82, 85, 185, 4),
     Branch("BR3", 3, 85, 5, 231, 82, 185, 4),
     Merge("MR3", 3, 84, 38, 128, 4),
     Branch("BR4", 4, 87, 14, 275, 13, 236, 11) >>

\* track[87] to track[98]
track_b87 ==
  << Merge("MR4", 4, 86, 103, 185, 11),
     Branch("BR5", 5, 89, 34, 239, 93, 371, 5),
     Merge("MR5", 5, 88, 114, 155, 5),
     Branch("BR6", 6, 91, 46, 239, 115, 371, 5),
     Merge("MR6", 6, 90, 37, 61, 5),
     Branch("BR7", 7, 93, 58, 231, 89, 371, 5),
     Merge("MR7", 7, 92, 74, 43, 5),
     Branch("BR8", 8, 95, 56, 316, 73, 239, 14),
     Merge("MR8", 8, 94, 96, 155, 14),
     Branch("BR9", 9, 97, 55, 309, 52, 229, 14),
     Merge("MR9", 9, 96, 94, 155, 14),
     Branch("BR10", 10, 99, 51, 239, 66, 239, 21) >>

\* track[99] to track[110]
track_b99 ==
  << Merge("MR10", 10, 98, 68, 50, 21),
     Branch("BR11", 11, 101, 102, 188, 107, 495, 11),
     Merge("MR11", 11, 100, 44, 50, 11),
     Branch("BR12", 12, 103, 1, 231, 86, 185, 11),
     Merge("MR12", 12, 102, 101, 188, 11),
     Branch("BR13", 13, 105, 20, 231, 79, 246, 19),
     Merge("MR13", 13, 104, 43, 120, 19),
     Branch("BR14", 14, 107, 101, 495, 42, 333, 11),
     Merge("MR14", 14, 106, 3, 43, 11),
     Branch("BR15", 15, 109, 36, 433, 41, 326, 9),
     Merge("MR15", 15, 108, 30, 50, 9),
     Branch("BR16", 16, 111, 16, 231, 18, 239, 18) >>

\* track[111] to track[122]
track_b111 ==
  << Merge("MR16", 16, 110, 40, 128, 18),
     Branch("BR17", 17, 113, 60, 239, 62, 246, 16),
     Merge("MR17", 17, 112, 77, 43, 16),
     Branch("BR18", 18, 115, 39, 231, 91, 371, 5),
     Merge("MR18", 18, 114, 88, 155, 5),
     Branch("BR153", 153, 117, 125, 253, 32, 246, 24),
     Merge("MR153", 153, 116, 119, 0, 24),
     Branch("BR154", 154, 119, 116, 0, 29, 239, 24),
     Merge("MR154", 154, 118, 122, 0, 24),
     Branch("BR155", 155, 121, 127, 282, 49, 246, 24),
     Merge("MR155", 155, 120, 123, 0, 24),
     Branch("BR156", 156, 123, 120, 0, 65, 239, 24) >>

\* track[123] to track[139]
track_b123 ==
  << Merge("MR156", 156, 122, 118, 0, 24),
     Enter("EN1", 125, 117, 253, 24),
     Exit("EX1", 124, 24),
     Enter("EN2", 127, 121, 282, 24),
     Exit("EX2", 126, 24),
     Enter("EN3", 129, 35, 514, 6),
     Exit("EX3", 128, 6),
     Enter("EN4", 131, 12, 325, 29),
     Exit("EX4", 130, 29),
     Enter("EN5", 133, 0, 504, 28),
     Exit("EX5", 132, 28),
     Enter("EN7", 135, 22, 43, 1),
     Exit("EX7", 134, 1),
     Enter("EN9", 137, 24, 50, 3),
     Exit("EX9", 136, 3),
     Enter("EN10", 139, 26, 50, 2),
     Exit("EX10", 138, 2) >>

track_b == track_b0 \o track_b14 \o track_b29 \o track_b44 \o track_b59 \o track_b74
           \o track_b87 \o track_b99 \o track_b111 \o track_b123

-----------------------------------------------------------------------------
\* The track that the operator names when the program starts (main.c:
\* init_track_data), as a function of the index
Track(t) == LET rows == IF t = "A" THEN track_a ELSE track_b
            IN [n \in 0 .. Len(rows) - 1 |-> rows[n + 1]]
tracks == [t \in {"A", "B"} |-> Track(t)]
=============================================================================
