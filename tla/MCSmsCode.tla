----------------------------- MODULE MCSmsCode -----------------------------
(* Symmetry for model checking SmsCode.                                    *)
EXTENDS SmsCode, TLC

Interchangeable == Permutations(Sender) \union Permutations(Proc \ Sender)
                     \union Permutations(Code)
=============================================================================
