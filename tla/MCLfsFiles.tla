----------------------------- MODULE MCLfsFiles -----------------------------
(* Instances of LfsFiles for TLC.                                          *)
EXTENDS LfsFiles, TLC

ReadWrite == {"RD", "WR", "CREAT"}
AnyMode == {ReadWrite, {"RD"}, {"RD", "WR", "APPEND"}, {"WR", "CREAT", "TRUNC"}, {"WR", "CREAT", "EXCL"}}

SomeSeeks == {<<0, "SET">>, <<5, "SET">>, <<-3, "CUR">>, <<2, "END">>}

AllOfThem == {"worn", "shared", "block end"}

(* A file of three blocks, stored and open.                                *)
ThreeBlocks ==
  <<Made("open", 1, <<1, ReadWrite>>), Made("write", 1, 18), Made("sync", 1, 0)>>
=============================================================================
