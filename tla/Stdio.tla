------------------------------- MODULE Stdio -------------------------------
(***************************************************************************)
(* A file behind the stdio library, as shapelib.c uses it.                 *)
(*                                                                         *)
(* f.now is the file as its program sees it.  f.safe is the file without   *)
(* the last write: that stays in the buffer of stdio until the file is     *)
(* positioned, read or closed, and is lost when the program is killed      *)
(* before.  A write is taken to go to the disk as a whole: records and     *)
(* headers are far smaller than a buffer.                                  *)
(***************************************************************************)
Put(f, t) == [now |-> t, safe |-> f.now]   \* fseek, then fwrite
Saved(t)  == [now |-> t, safe |-> t]       \* fclose
Sync(f)   == Saved(f.now)                  \* fseek, then fread

AfterKill(f) == {Saved(f.now), Saved(f.safe)}
===============================================================================
