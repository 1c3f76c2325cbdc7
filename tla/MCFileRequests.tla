--------------------------- MODULE MCFileRequests ---------------------------
(***************************************************************************)
(* Plans: a copy whose files others read and write; appends that           *)
(* interleave with a reader; a FileHandle that is closed twice, dropped    *)
(* and used while others open files; and fs.truncate() beside others.      *)
(***************************************************************************)
EXTENDS FileRequests

TwoFiles == {"a", "b"}
AtFirst == [a |-> <<11, 12, 13>>, b |-> <<>>]

Plan(op, from, to, mode, h, pos) ==
    [op |-> op, path |-> from, dest |-> to, mode |-> mode, handle |-> h, from |-> pos]

Path(op, f) == Plan(op, f, f, {}, 1, 0)
CopyOf(f, g) == Plan("copyFile", f, g, {}, 1, 0)
\* The handle is that of the first call.
OpenFor(f, mode) == Plan("open", f, f, mode, 1, 0)
Handle(op, pos) == Plan(op, "a", "a", {}, 1, pos)
\* A fourth call that is never made: its handle is not that of an open().
None == Plan("handle.close", "a", "a", {}, 4, 0)

Cases ==
    {<<CopyOf("a", "b"), Path("writeFile", "b"), None, None>>,
     <<CopyOf("a", "b"), Path("readFile", "b"), Path("truncate", "a"), None>>,
     <<Path("appendFile", "a"), Path("appendFile", "a"), Path("readFilePromise", "a"), None>>,
     <<OpenFor("a", {"read", "write"}), Handle("handle.write", Current), Handle("handle.close", 0),
       Path("writeFile", "b")>>,
     <<OpenFor("a", {"read"}), Handle("handle.close", 0), Handle("handle.close", 0), Path("readFilePromise", "b")>>,
     <<OpenFor("a", {"read", "write", "append"}), Handle("handle.readFile", 0), Handle("handle.read", Current),
       Path("truncate", "a")>>,
     <<Path("truncate", "a"), Path("writeFile", "b"), Path("readFile", "a"), None>>}
=============================================================================
