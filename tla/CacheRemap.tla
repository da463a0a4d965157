----------------------------- MODULE CacheRemap -----------------------------
(***************************************************************************)
(* CacheRemap (include/CacheRemap.hpp): where a ring or an array of cells  *)
(* puts its i-th cell, so that neighbours in the order of tickets are in   *)
(* different cache lines.  The models of the rings know cells by their     *)
(* ticket only; they may do so because no two tickets share a cell that    *)
(* did not share one before (RingProofs).                                  *)
(***************************************************************************)
EXTENDS Integers

CellsPerCacheLine(cellSize, lineSize) == lineSize \div cellSize

NumCacheLines(size, cellSize, lineSize) == (size * cellSize) \div lineSize

(* operator[]: cells i, i + lines, i + 2 * lines, ... share a cache line. *)
Spread(lines, cells, i) == (i % lines) * cells + (i \div lines)

(* ConditionalCacheRemap: cells that fill no line stay where they are. *)
Remap(size, cellSize, lineSize, i) ==
  IF size * cellSize >= lineSize
  THEN Spread(NumCacheLines(size, cellSize, lineSize),
              CellsPerCacheLine(cellSize, lineSize), i)
  ELSE i

(* The static_asserts of CacheRemap. *)
Fits(size, cellSize, lineSize) ==
  size * cellSize >= lineSize =>
    /\ lineSize % cellSize = 0
    /\ (size * cellSize) % lineSize = 0

=============================================================================
