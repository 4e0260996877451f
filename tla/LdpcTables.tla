------------------------------ MODULE LdpcTables ------------------------------
(***************************************************************************)
(* The two base graphs of src/include/nr_bb/ldpc_bg_tables.hpp, with the     *)
(* edges of their first rows: the four core rows of BG1, and of BG2 these    *)
(* and two extension rows. Every graph truncated to as many rows (mb_use)   *)
(* is therefore exactly the code's.                                         *)
(***************************************************************************)
EXTENDS Integers

\* A shift for each of the eight lifting sets.
E(r, c, s) == [row |-> r, col |-> c, shift |-> s]

BG1_EDGES == {
    E(0, 0, <<250, 307, 73, 223, 211, 294, 0, 135>>), E(0, 1, <<69, 19, 15, 16, 198, 118, 0, 227>>),
    E(0, 2, <<226, 50, 103, 94, 188, 167, 0, 126>>), E(0, 3, <<159, 369, 49, 91, 186, 330, 0, 134>>),
    E(0, 5, <<100, 181, 240, 74, 219, 207, 0, 84>>), E(0, 6, <<10, 216, 39, 10, 4, 165, 0, 83>>),
    E(0, 9, <<59, 317, 15, 0, 29, 243, 0, 53>>), E(0, 10, <<229, 288, 162, 205, 144, 250, 0, 225>>),
    E(0, 11, <<110, 109, 215, 216, 116, 1, 0, 205>>), E(0, 12, <<191, 17, 164, 21, 216, 339, 0, 128>>),
    E(0, 13, <<9, 357, 133, 215, 115, 201, 0, 75>>), E(0, 15, <<195, 215, 298, 14, 233, 53, 0, 135>>),
    E(0, 16, <<23, 106, 110, 70, 144, 347, 0, 217>>), E(0, 18, <<190, 242, 113, 141, 95, 304, 0, 220>>),
    E(0, 19, <<35, 180, 16, 198, 216, 167, 0, 90>>), E(0, 20, <<239, 330, 189, 104, 73, 47, 0, 105>>),
    E(0, 21, <<31, 346, 32, 81, 261, 188, 0, 137>>), E(0, 22, <<1, 1, 1, 1, 1, 1, 0, 1>>),
    E(0, 23, <<0, 0, 0, 0, 0, 0, 0, 0>>), E(1, 0, <<2, 76, 303, 141, 179, 77, 22, 96>>),
    E(1, 2, <<239, 76, 294, 45, 162, 225, 11, 236>>), E(1, 3, <<117, 73, 27, 151, 223, 96, 124, 136>>),
    E(1, 4, <<124, 288, 261, 46, 256, 338, 0, 221>>), E(1, 5, <<71, 144, 161, 119, 160, 268, 10, 128>>),
    E(1, 7, <<222, 331, 133, 157, 76, 112, 0, 92>>), E(1, 8, <<104, 331, 4, 133, 202, 302, 0, 172>>),
    E(1, 9, <<173, 178, 80, 87, 117, 50, 2, 56>>), E(1, 11, <<220, 295, 129, 206, 109, 167, 16, 11>>),
    E(1, 12, <<102, 342, 300, 93, 15, 253, 60, 189>>), E(1, 14, <<109, 217, 76, 79, 72, 334, 0, 95>>),
    E(1, 15, <<132, 99, 266, 9, 152, 242, 6, 85>>), E(1, 16, <<142, 354, 72, 118, 158, 257, 30, 153>>),
    E(1, 17, <<155, 114, 83, 194, 147, 133, 0, 87>>), E(1, 19, <<255, 331, 260, 31, 156, 9, 168, 163>>),
    E(1, 21, <<28, 112, 301, 187, 119, 302, 31, 216>>), E(1, 22, <<0, 0, 0, 0, 0, 0, 105, 0>>),
    E(1, 23, <<0, 0, 0, 0, 0, 0, 0, 0>>), E(1, 24, <<0, 0, 0, 0, 0, 0, 0, 0>>),
    E(2, 0, <<106, 205, 68, 207, 258, 226, 132, 189>>), E(2, 1, <<111, 250, 7, 203, 167, 35, 37, 4>>),
    E(2, 2, <<185, 328, 80, 31, 220, 213, 21, 225>>), E(2, 4, <<63, 332, 280, 176, 133, 302, 180, 151>>),
    E(2, 5, <<117, 256, 38, 180, 243, 111, 4, 236>>), E(2, 6, <<93, 161, 227, 186, 202, 265, 149, 117>>),
    E(2, 7, <<229, 267, 202, 95, 218, 128, 48, 179>>), E(2, 8, <<177, 160, 200, 153, 63, 237, 38, 92>>),
    E(2, 9, <<95, 63, 71, 177, 0, 294, 122, 24>>), E(2, 10, <<39, 129, 106, 70, 3, 127, 195, 68>>),
    E(2, 13, <<142, 200, 295, 77, 74, 110, 155, 6>>), E(2, 14, <<225, 88, 283, 214, 229, 286, 28, 101>>),
    E(2, 15, <<225, 53, 301, 77, 0, 125, 85, 33>>), E(2, 17, <<245, 131, 184, 198, 216, 131, 47, 96>>),
    E(2, 18, <<205, 240, 246, 117, 269, 163, 179, 125>>), E(2, 19, <<251, 205, 230, 223, 200, 210, 42, 67>>),
    E(2, 20, <<117, 13, 276, 90, 234, 7, 66, 230>>), E(2, 24, <<0, 0, 0, 0, 0, 0, 0, 0>>),
    E(2, 25, <<0, 0, 0, 0, 0, 0, 0, 0>>), E(3, 0, <<121, 276, 220, 201, 187, 97, 4, 128>>),
    E(3, 1, <<89, 87, 208, 18, 145, 94, 6, 23>>), E(3, 3, <<84, 0, 30, 165, 166, 49, 33, 162>>),
    E(3, 4, <<20, 275, 197, 5, 108, 279, 113, 220>>), E(3, 6, <<150, 199, 61, 45, 82, 139, 49, 43>>),
    E(3, 7, <<131, 153, 175, 142, 132, 166, 21, 186>>), E(3, 8, <<243, 56, 79, 16, 197, 91, 6, 96>>),
    E(3, 10, <<136, 132, 281, 34, 41, 106, 151, 1>>), E(3, 11, <<86, 305, 303, 155, 162, 246, 83, 216>>),
    E(3, 12, <<246, 231, 253, 213, 57, 345, 154, 22>>), E(3, 13, <<219, 341, 164, 147, 36, 269, 87, 24>>),
    E(3, 14, <<211, 212, 53, 69, 115, 185, 5, 167>>), E(3, 16, <<240, 304, 44, 96, 242, 249, 92, 200>>),
    E(3, 17, <<76, 300, 28, 74, 165, 215, 173, 32>>), E(3, 18, <<244, 271, 77, 99, 0, 143, 120, 235>>),
    E(3, 20, <<144, 39, 319, 30, 113, 121, 2, 172>>), E(3, 21, <<12, 357, 68, 158, 108, 121, 142, 219>>),
    E(3, 22, <<1, 1, 1, 1, 1, 1, 0, 1>>), E(3, 25, <<0, 0, 0, 0, 0, 0, 0, 0>>)}

BG2_EDGES == {
    E(0, 0, <<9, 174, 0, 72, 3, 156, 143, 145>>), E(0, 1, <<117, 97, 0, 110, 26, 143, 19, 131>>),
    E(0, 2, <<204, 166, 0, 23, 53, 14, 176, 71>>), E(0, 3, <<26, 66, 0, 181, 35, 3, 165, 21>>),
    E(0, 6, <<189, 71, 0, 95, 115, 40, 196, 23>>), E(0, 9, <<205, 172, 0, 8, 127, 123, 13, 112>>),
    E(0, 10, <<0, 0, 0, 1, 0, 0, 0, 1>>), E(0, 11, <<0, 0, 0, 0, 0, 0, 0, 0>>),
    E(1, 0, <<167, 27, 137, 53, 19, 17, 18, 142>>), E(1, 3, <<166, 36, 124, 156, 94, 65, 27, 174>>),
    E(1, 4, <<253, 48, 0, 115, 104, 63, 3, 183>>), E(1, 5, <<125, 92, 0, 156, 66, 1, 102, 27>>),
    E(1, 6, <<226, 31, 88, 115, 84, 55, 185, 96>>), E(1, 7, <<156, 187, 0, 200, 98, 37, 17, 23>>),
    E(1, 8, <<224, 185, 0, 29, 69, 171, 14, 9>>), E(1, 9, <<252, 3, 55, 31, 50, 133, 180, 167>>),
    E(1, 11, <<0, 0, 0, 0, 0, 0, 0, 0>>), E(1, 12, <<0, 0, 0, 0, 0, 0, 0, 0>>),
    E(2, 0, <<81, 25, 20, 152, 95, 98, 126, 74>>), E(2, 1, <<114, 114, 94, 131, 106, 168, 163, 31>>),
    E(2, 3, <<44, 117, 99, 46, 92, 107, 47, 3>>), E(2, 4, <<52, 110, 9, 191, 110, 82, 183, 53>>),
    E(2, 8, <<240, 114, 108, 91, 111, 142, 132, 155>>), E(2, 10, <<1, 1, 1, 0, 1, 1, 1, 0>>),
    E(2, 12, <<0, 0, 0, 0, 0, 0, 0, 0>>), E(2, 13, <<0, 0, 0, 0, 0, 0, 0, 0>>),
    E(3, 1, <<8, 136, 38, 185, 120, 53, 36, 239>>), E(3, 2, <<58, 175, 15, 6, 121, 174, 48, 171>>),
    E(3, 4, <<158, 113, 102, 36, 22, 174, 18, 95>>), E(3, 5, <<104, 72, 146, 124, 4, 127, 111, 110>>),
    E(3, 6, <<209, 123, 12, 124, 73, 17, 203, 159>>), E(3, 7, <<54, 118, 57, 110, 49, 89, 3, 199>>),
    E(3, 8, <<18, 28, 53, 156, 128, 17, 191, 43>>), E(3, 9, <<128, 186, 46, 133, 79, 105, 160, 75>>),
    E(3, 10, <<0, 0, 0, 1, 0, 0, 0, 1>>), E(3, 13, <<0, 0, 0, 0, 0, 0, 0, 0>>),
    E(4, 0, <<179, 72, 0, 200, 42, 86, 43, 29>>), E(4, 1, <<214, 74, 136, 16, 24, 67, 27, 140>>),
    E(4, 11, <<71, 29, 157, 101, 51, 83, 117, 180>>), E(4, 14, <<0, 0, 0, 0, 0, 0, 0, 0>>),
    E(5, 0, <<231, 10, 0, 185, 40, 79, 136, 121>>), E(5, 1, <<41, 44, 131, 138, 140, 84, 49, 41>>),
    E(5, 5, <<194, 121, 142, 170, 84, 35, 36, 169>>), E(5, 7, <<159, 80, 141, 219, 137, 103, 132, 88>>),
    E(5, 11, <<103, 48, 64, 193, 71, 60, 62, 207>>), E(5, 15, <<0, 0, 0, 0, 0, 0, 0, 0>>)}

BG1 == [mb |-> 46, nb |-> 68, kb |-> 22, edges |-> BG1_EDGES]
BG2 == [mb |-> 42, nb |-> 52, kb |-> 10, edges |-> BG2_EDGES]

=============================================================================
