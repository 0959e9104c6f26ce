--------------------------- MODULE MCSensorScaling ---------------------------
EXTENDS SensorScaling

MCMinima == {-1000, -128, -55, -1, 0, 1, 17, 200, 999, 1234}
MCRanges == {-1, 0, 1, 2, 10, 127, 255, 300, 1305, 2448, 2550, 4080}
MCUnits  == {-14, -9, -8, -3, -1, 0, 1, 4, 7, 9, 12}

(* A sensor from 1234 to 1244: its minimum has more digits than B.         *)
FourDigits == {1234}
TenSteps   == {10}
NoUnit     == {0}
=============================================================================
