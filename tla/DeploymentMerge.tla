--------------------------- MODULE DeploymentMerge ---------------------------
(***************************************************************************)
(* The deployment details of a TestNet (src/testnet/testnet.go): the      *)
(* history Details, and CombinedDetails, which NewTestNet starts from the  *)
(* first deployment and AddDetails merges every later deployment into.    *)
(*                                                                         *)
(* AddDetails merges by json.Marshal(dd) and json.Unmarshal into           *)
(* &tn.CombinedDetails, then repairs Files and Images by hand.  Go values  *)
(* share memory, and the model keeps what is shared:                       *)
(*  - a files entry is a map, a reference: the model keeps a heap "maps"   *)
(*    of key sets, and a files list is a sequence of heap ids;             *)
(*  - a []string is a header over a backing array: NewTestNet copies the   *)
(*    header of details.Images into both Details[0] and CombinedDetails.   *)
(*    imgShared says CombinedDetails.Images still writes into that array,  *)
(*    of capacity imgCap (the JSON decoder chose it, and Go releases       *)
(*    choose differently, so Init takes any capacity up to MaxCap).        *)
(* encoding/json decodes an array into the elements the slice already has  *)
(* and an object into the map already there, keeping its entries.  A nil   *)
(* slice is NilSlice: it encodes as null, or not at all when the field is  *)
(* tagged omitempty (OmitEmpty; db.DeploymentDetails is not in src/).      *)
(***************************************************************************)
EXTENDS Naturals, Sequences, SequencesExt

CONSTANTS
  Img,             \* image names
  EmptyImage,      \* the string "" that make([]string, n) holds
  FileKeys,        \* paths of the files maps
  NilSlice,        \* a nil slice
  MaxNodes,        \* nodes of one deployment
  MaxLen,          \* entries of a request's images and files lists
  MaxCap,          \* capacity of the first deployment's images array
  MaxAddDetails,   \* AddDetails calls after NewTestNet
  OmitEmpty        \* whether nil and empty lists are left out of the JSON

Elems(s) == IF s = NilSlice THEN << >> ELSE s
NonEmpty(s) == s # NilSlice /\ Len(s) > 0
Omitted(s) == OmitEmpty /\ ~NonEmpty(s)
Larger(a, b) == IF a > b THEN a ELSE b

\* The deployment requests: files as the key sets of their maps.
Deployments ==
  [nodes : 1 .. MaxNodes,
   images : {NilSlice} \cup SeqOf(Img, MaxLen),
   files : {NilSlice} \cup SeqOf(SUBSET FileKeys \ {{}}, MaxLen)]

VARIABLES
  details,    \* tn.Details: [nodes, images, files (heap ids)]
  combined,   \* tn.CombinedDetails, the same shape
  maps,       \* the heap of files maps
  imgShared,  \* CombinedDetails.Images writes into Details[0]'s array
  imgCap,     \* the capacity of that array
  requests,   \* the deployments as they were given (history)
  specView,   \* CombinedDetails by the merge rules of spec 4.4
  panicked    \* AddDetails indexed Images[0] of an empty slice

vars == <<details, combined, maps, imgShared, imgCap, requests, specView, panicked>>

\* Fresh heap ids base+1 .. base+n.
FreshIds(base, n) == [i \in 1 .. n |-> base + i]

\* The record a request becomes once its maps are on the heap at base+1...
Recorded(dd, base) ==
  [dd EXCEPT !.files = IF @ = NilSlice THEN NilSlice ELSE FreshIds(base, Len(@))]

\* A recorded files list read back through the heap.
FilesView(fs, ms) == IF fs = NilSlice THEN NilSlice ELSE [i \in DOMAIN fs |-> ms[fs[i]]]

(* NewTestNet: Details = [details], CombinedDetails = details (the same    *)
(* images array and the same maps).                                        *)
Init ==
  \E d0 \in Deployments :
    /\ maps = Elems(d0.files)
    /\ details = << Recorded(d0, 0) >>
    /\ combined = Recorded(d0, 0)
    /\ imgShared = NonEmpty(d0.images)
    /\ imgCap \in IF NonEmpty(d0.images) THEN Len(d0.images) .. MaxCap ELSE {0}
    /\ requests = << d0 >>
    /\ specView = d0
    /\ panicked = FALSE

-----------------------------------------------------------------------------
(* json.Unmarshal(tmp, &tn.CombinedDetails) on a list field: null sets the *)
(* slice to nil, [] to a new empty slice, a list to its elements; a field  *)
(* left out of the JSON leaves the slice alone.                            *)
Decoded(old, new) == IF Omitted(new) THEN old ELSE new

(* The same Unmarshal on the files field: each object is decoded into the  *)
(* map already at its index, which keeps its entries.  Past the old length *)
(* the decoder fills fresh maps that "Files = oldCD.Files" throws away.    *)
DecodeFilesInto(ms, slots, new) ==
  IF Omitted(new) \/ slots = NilSlice \/ new = NilSlice THEN ms
  ELSE LET inPlace == {i \in 1 .. Len(new) : i <= Len(slots)}
       IN [j \in DOMAIN ms |-> ms[j] \cup UNION {new[i] : i \in {i \in inPlace : slots[i] = j}}]

\* Writes into the shared images array, as the header of Details[0] sees them.
AliasWrite(view, new) == [i \in DOMAIN view |-> IF i <= Len(new) THEN new[i] ELSE view[i]]

\* Images after the Unmarshal: unlike Files, they are not restored from oldCD.
ImagesAfterUnmarshal(oldImgs, decoded) == decoded

(* The Images padding: a nil slice becomes make([]string, oldNodes);       *)
(* otherwise it is padded with Images[0] up to the old node count.         *)
PadImages(imgs, oldNodes) ==
  IF imgs = NilSlice THEN [i \in 1 .. oldNodes |-> EmptyImage]
  ELSE imgs \o [i \in 1 .. Larger(0, oldNodes - Len(imgs)) |-> imgs[1]]

\* tn.CombinedDetails.Images[0] of an empty slice: index out of range.
PadPanics(imgs, oldNodes) == imgs # NilSlice /\ Len(imgs) = 0 /\ oldNodes > 0

(* The merge as spec 4.4 states it, on request values.  Where Images is   *)
(* empty there is no first image, and the pad is "" (spec section 10).     *)
SpecMerge(cd, dd) ==
  LET fs == Elems(cd.files)
      im == Elems(cd.images)
      first == IF im = << >> THEN EmptyImage ELSE im[1]
  IN [nodes  |-> cd.nodes + dd.nodes,
      files  |-> IF NonEmpty(dd.files)
                 THEN fs \o [i \in 1 .. Larger(0, cd.nodes - Len(fs)) |-> {}] \o dd.files
                 ELSE cd.files,
      images |-> IF NonEmpty(dd.images)
                 THEN im \o [i \in 1 .. Larger(0, cd.nodes - Len(im)) |-> first] \o dd.images
                 ELSE cd.images]

(* AddDetails(dd), under tn.mux: append dd to Details, Marshal, Unmarshal  *)
(* into CombinedDetails, restore and extend Files, add the node counts,   *)
(* extend Images.  A panic in the Images padding ends the call there.      *)
AddDetails ==
  /\ ~panicked /\ Len(requests) <= MaxAddDetails
  /\ \E dd \in Deployments :
     LET rec     == Recorded(dd, Len(maps))
         heap1   == DecodeFilesInto(maps \o Elems(dd.files), combined.files, dd.files)
         imgs1   == ImagesAfterUnmarshal(combined.images, Decoded(combined.images, dd.images))
         shared1 == IF Omitted(dd.images) THEN imgShared
                    ELSE imgShared /\ NonEmpty(dd.images) /\ Len(dd.images) <= imgCap
         view1   == IF imgShared /\ NonEmpty(dd.images)
                    THEN AliasWrite(details[1].images, dd.images) ELSE details[1].images
         oldNodes == combined.nodes
         pad     == Larger(0, oldNodes - Len(Elems(combined.files)))
         files2  == IF NonEmpty(dd.files)
                    THEN Elems(combined.files) \o FreshIds(Len(heap1), pad) \o rec.files
                    ELSE combined.files
         heap2   == IF NonEmpty(dd.files) THEN heap1 \o [i \in 1 .. pad |-> {}] ELSE heap1
         panics  == NonEmpty(dd.images) /\ PadPanics(imgs1, oldNodes)
         imgs2   == IF NonEmpty(dd.images) /\ ~panics
                    THEN PadImages(imgs1, oldNodes) \o dd.images ELSE imgs1
         shared2 == shared1 /\ Len(Elems(imgs2)) <= imgCap
         view2   == IF shared1 /\ NonEmpty(dd.images) THEN AliasWrite(view1, imgs2) ELSE view1
     IN /\ details' = Append([details EXCEPT ![1].images = view2], rec)
        /\ maps' = heap2
        /\ combined' = [nodes |-> oldNodes + dd.nodes, images |-> imgs2, files |-> files2]
        /\ imgShared' = shared2
        /\ requests' = Append(requests, dd)
        /\ specView' = SpecMerge(specView, dd)
        /\ panicked' = panics
  /\ UNCHANGED imgCap

Next == AddDetails

Spec == Init /\ [][Next]_vars

-----------------------------------------------------------------------------
(* spec 4.4 and scenario E2: CombinedDetails is the merge of every         *)
(* deployment by the rules (nodes add up; files padded with empty maps and *)
(* images with the first image up to the old node count, then extended;   *)
(* empty or missing lists change nothing).                                 *)
CombinedMatchesSpec ==
  /\ combined.nodes = specView.nodes
  /\ Elems(FilesView(combined.files, maps)) = Elems(specView.files)
  /\ Elems(combined.images) = Elems(specView.images)

(* Details is the history of the deployments: a later AddDetails leaves    *)
(* the recorded details of every earlier deployment as they were given.    *)
DetailsUnchanged ==
  \A i \in DOMAIN details :
    [details[i] EXCEPT !.files = FilesView(@, maps)] = requests[i]

=============================================================================
