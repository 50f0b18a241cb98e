------------------------------- MODULE MCReducer -------------------------------
(* The reducer on workloads whose operations depend on each other.  The     *)
(* second file system fails where the first does not, both may fail to open  *)
(* a file, and what they read may differ.                                    *)
EXTENDS Reducer

MCNames == 0 .. 1

MCTestcases ==
  { <<>>,
    <<MkDirOp(<<0>>), CreateOp(<<0, 1>>), OpenOp(<<0, 1>>, 1), CloseOp(1)>>,
    <<CreateOp(<<0>>), CreateOp(<<1>>), OpenOp(<<0>>, 1), OpenOp(<<1>>, 2), FSyncOp(2)>>,
    <<CreateOp(<<0>>), OpenOp(<<0>>, 1), WriteOp(1, 0, 1), ReadOp(1, 1)>>,
    <<CreateOp(<<0>>), OpenOp(<<0>>, 1), WriteOp(1, 1, 2)>>,
    <<MkDirOp(<<0>>), RemoveOp(<<0>>)>> }

Good(kind) == Response(kind, 0, 0, NoData)

MCResponses ==
  [fst |-> [Hardlink |-> {}, Rename |-> {}, Symlink |-> {},
            MkDir |-> {Good("MkDir")}, Create |-> {Good("Create")},
            Remove |-> {Good("RMDIR")}, Open |-> {Good("Open"), Response("Open", 2, 0, NoData)},
            Close |-> {Good("Close")}, FSync |-> {Good("FSync")},
            Write |-> {Response("Write", 0, 1, NoData)},
            Read |-> {Response("Read", 0, 1, "hash=1")}],
   snd |-> [Hardlink |-> {}, Rename |-> {}, Symlink |-> {},
            MkDir |-> {Good("MkDir")},
            Create |-> {Good("Create"), Response("CLOSE", 5, 0, NoData)},
            Remove |-> {Good("RMDIR"), Response("STAT", 2, 0, NoData), Response("REALPATH", 5, 0, NoData)},
            Open |-> {Good("Open"), Response("Open", 2, 0, NoData)},
            Close |-> {Good("Close"), Response("Close", 5, 0, NoData)},
            FSync |-> {Good("FSync"), Response("FSync", 5, 0, NoData)},
            Write |-> {Response("Write", 0, 1, NoData)},
            Read |-> {Response("Read", 0, 1, "hash=1"), Response("Read", 0, 1, "hash=2")}]]
===============================================================================
