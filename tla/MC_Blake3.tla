------------------------------ MODULE MC_Blake3 ------------------------------
EXTENDS Blake3

(* A mixing of all arguments that is not symmetric in them. *)
MC_Compress(cv, block, len, counter, flag) ==
  LET b == IF Len(block) = 2 THEN 3 * block[1] + 7 * block[2]
           ELSE 11 * block[1] + 19 * block[2] + 53 * block[3] + 131 * block[4]
      x == (5 * cv + b + 311 * len + 719 * counter + 1543 * flag) % 32749
  IN (x * (x + 17)) % 32749
MC_Lengths == {0, 1, 4, 8, 9, 16, 23, 64, 112, 200}
MC_Windows == {<<0, 0>>, <<0, 4>>, <<3, 6>>}
=============================================================================
