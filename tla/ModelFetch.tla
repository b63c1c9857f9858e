----------------------------- MODULE ModelFetch -----------------------------
(***************************************************************************)
(* fetchToFile and its callers' test of the destination                    *)
(* (internal/models/models.go): the download of one model file, through    *)
(* dest.part and a rename, under network failures and kills.  ModelInstall *)
(* puts it into the commands that download.                                *)
(*                                                                         *)
(* A path names a file; a fetcher keeps the file it created, whatever      *)
(* happens to the path.  A file's contents are the set of blocks that were *)
(* written; creating a file that exists truncates it.                      *)
(*                                                                         *)
(* A response may declare its length.  net/http then reports a body that   *)
(* ends before it as an error; without one (Content-Length < 0, which the  *)
(* progress line provides for) a body that ends early ends like any other, *)
(* and fetchToFile compares no sizes.                                      *)
(***************************************************************************)
EXTENDS Naturals

CONSTANTS
  Fetchers,   \* who may download
  Files,      \* files that may be created
  None,
  Size        \* blocks of the model

VARIABLES
  pc,         \* where each fetcher is
  handle,     \* the file it writes
  written,    \* how many blocks it has copied
  contents,   \* contents[f]: the blocks of a file
  part, dest, \* what the two paths name
  sized,      \* its response declares a length: resp.ContentLength >= 0
  cut         \* ghost: files whose body ended early, its response without a length

Whole == 1 .. Size

Init ==
  /\ pc = [d \in Fetchers |-> "idle"]
  /\ handle = [d \in Fetchers |-> None]
  /\ written = [d \in Fetchers |-> 0]
  /\ dest \in Files \cup {None}
  /\ contents = [f \in Files |-> IF f = dest THEN Whole ELSE {}]
  /\ part = None
  /\ sized = [d \in Fetchers |-> FALSE]
  /\ cut = {}

Idle(d) == pc[d] = "idle"
Unused  == Files \ ({part, dest} \cup {handle[d] : d \in Fetchers})

Goto(d, to) == pc' = [pc EXCEPT ![d] = to]

(* A fetcher that ends drops its handle.                                   *)
Ends(d) ==
  /\ Goto(d, "idle")
  /\ handle' = [handle EXCEPT ![d] = None]
  /\ written' = [written EXCEPT ![d] = 0]
  /\ sized' = [sized EXCEPT ![d] = FALSE]
-----------------------------------------------------------------------------
(* Stat: an existing file is reused by setup ...                           *)
Reuses(d) ==
  /\ Idle(d) /\ dest # None
  /\ UNCHANGED <<pc, handle, written, contents, part, dest, sized, cut>>

(* ... and otherwise requested, as it is after --force.                    *)
Requests(d) ==
  /\ Idle(d)
  /\ Goto(d, "get")
  /\ UNCHANGED <<handle, written, contents, part, dest, sized, cut>>

RequestFails(d) ==
  /\ pc[d] = "get"
  /\ Ends(d)
  /\ UNCHANGED <<contents, part, dest, cut>>

(* A response arrives, with or without a length; os.Create(dest + ".part").*)
Creates(d) ==
  /\ pc[d] = "get"
  /\ part' \in IF part = None THEN Unused ELSE {part}
  /\ contents' = [contents EXCEPT ![part'] = {}]
  /\ handle' = [handle EXCEPT ![d] = part']
  /\ \E s \in BOOLEAN : sized' = [sized EXCEPT ![d] = s]
  /\ cut' = cut \ {part'}
  /\ Goto(d, "copy")
  /\ UNCHANGED <<written, dest>>

Copies(d) ==
  /\ pc[d] = "copy" /\ written[d] < Size
  /\ written' = [written EXCEPT ![d] = @ + 1]
  /\ contents' = [contents EXCEPT ![handle[d]] = @ \cup {written'[d]}]
  /\ UNCHANGED <<pc, handle, part, dest, sized, cut>>

(* io.Copy ends, or f.Close: without an error only if the body is complete *)
(* or nobody knows that it is not.                                         *)
CopyEnds_ErrorIgnored(d) == {"rename"}
CopyEnds(d) == {"remove"} \cup IF written[d] = Size \/ ~sized[d] THEN {"rename"} ELSE {}

Closes(d) ==
  /\ pc[d] = "copy"
  /\ \E to \in CopyEnds(d) : Goto(d, to)
  /\ cut' = IF written[d] < Size /\ ~sized[d] THEN cut \cup {handle[d]} ELSE cut
  /\ UNCHANGED <<handle, written, contents, part, dest, sized>>

(* The rename moves whatever the path names by now.  The file it replaces  *)
(* is gone.                                                                *)
Renames(d) ==
  /\ pc[d] = "rename" /\ part # None
  /\ dest' = part
  /\ part' = None
  /\ contents' = [f \in Files |-> IF f = dest' THEN contents[f] ELSE {}]
  /\ cut' = cut \cap {dest'}
  /\ Ends(d)

(* A download that failed, or whose rename does, removes dest.part, if it  *)
(* can.                                                                    *)
Removes(d) ==
  /\ pc[d] \in {"remove", "rename"}
  /\ \/ /\ contents' = [f \in Files |-> IF f = part THEN {} ELSE contents[f]]
        /\ part' = None
        /\ cut' = cut \ {part}
     \/ UNCHANGED <<contents, part, cut>>
  /\ Ends(d)
  /\ UNCHANGED dest

(* The process is killed: what it wrote stays.                             *)
Kill(d) ==
  /\ ~Idle(d)
  /\ Ends(d)
  /\ UNCHANGED <<contents, part, dest, cut>>
-----------------------------------------------------------------------------
TypeOK ==
  /\ pc \in [Fetchers -> {"idle", "get", "copy", "rename", "remove"}]
  /\ handle \in [Fetchers -> Files \cup {None}]
  /\ \A d \in Fetchers : pc[d] = "copy" => handle[d] \in Files
  /\ written \in [Fetchers -> 0 .. Size]
  /\ contents \in [Files -> SUBSET Whole]
  /\ part \in Files \cup {None} /\ dest \in Files \cup {None}
  /\ sized \in [Fetchers -> BOOLEAN] /\ cut \subseteq Files

(* A file is whole, unless the response without a length was cut short.    *)
DestIsWhole == dest # None /\ (contents[dest] = Whole \/ dest \in cut)
=============================================================================
