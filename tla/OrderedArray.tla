---------------------------- MODULE OrderedArray ----------------------------
(***************************************************************************)
(* The insertion-sorted array of kernel/orderedArray.c, which the heap     *)
(* uses as the index of its holes.  The array of pointers is a sequence;   *)
(* less_than compares the keys of the pointed-to objects, so the operators *)
(* take the current keys as a function "key" from items to integers.  The  *)
(* keys belong to the caller, who may change them between two calls.       *)
(***************************************************************************)
EXTENDS Integers, Sequences, SequencesExt

(***************************************************************************)
(* The place where insertOrderedArray stops its scan: the first item that  *)
(* is not less than the new one, or the end of the array.                  *)
(***************************************************************************)
IsInsertPosition(arr, item, key, p) ==
  /\ p \in 1..(Len(arr) + 1)
  /\ \A i \in 1..(p - 1) : key[arr[i]] < key[item]
  /\ p <= Len(arr) => key[arr[p]] >= key[item]

InsertPosition(arr, item, key) ==
  CHOOSE p \in 1..(Len(arr) + 1) : IsInsertPosition(arr, item, key, p)

(* insertOrderedArray: shift the tail one place up and store the item.     *)
InsertOrderedArray(arr, item, key) ==
  InsertAt(arr, InsertPosition(arr, item, key), item)

(* removeOrderedArray: shift the tail one place down over position i.      *)
RemoveOrderedArrayNext(arr, i) == IF i < Len(arr) THEN RemoveAt(arr, i + 1) ELSE arr
RemoveOrderedArray(arr, i) == RemoveAt(arr, i)

(* The scan free() makes with lookupOrderedArray: the first position that  *)
(* holds the item, or 0 when the scan runs off the end.                    *)
PositionOf(arr, item) == SelectInSeq(arr, LAMBDA x : x = item)

(***************************************************************************)
(* What orderedArray.h:11 promises of the array: its items are in the      *)
(* order of their keys.                                                    *)
(***************************************************************************)
SortedBy(arr, key) ==
  \A i, j \in 1..Len(arr) : i < j => key[arr[i]] <= key[arr[j]]
=============================================================================
