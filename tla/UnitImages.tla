----------------------------- MODULE UnitImages -----------------------------
(***************************************************************************)
(* The photos of one unit: image-manager.tsx in one admin's tab, its       *)
(* server actions, and the rows the API keeps, which other admins change   *)
(* as well.  An order is saved by one PATCH an image.                      *)
(***************************************************************************)
EXTENDS Integers, Sequences, FiniteSets, FiniteSetsExt

CONSTANTS MaxImages,  \* bound: images ever uploaded; an id is its place in time
          MaxSort,    \* bound: the sort that others write
          MaxTasks    \* bound: tasks under way

ASSUME ImagesAssumption ==
  MaxImages \in Nat \ {0} /\ MaxSort \in Nat /\ MaxTasks \in Nat \ {0}

VARIABLES rows,        \* unit_images: sort and is_cover of each image there is
          ids,         \* how many ids were given
          images,      \* the list as the page has it
          tasks,       \* what waits for the server, oldest first
          refetching,  \* router.refresh has been called
          confirming,  \* the image the modal asks about, or 0
          reported,    \* the result modal is up
          preview,     \* the place in the list of the image shown large, or 0
          mixed        \* history: others ordered the images while we did

imagevars == << rows, ids, images, tasks, refetching, confirming, reported, preview, mixed >>
stored == << rows, ids >>
dialogs == << confirming, reported >>

\* The list's order; equal sorts are told apart by age, and the k-th image is
\* the one with k - 1 before it.
Before(r, i, j) == r[i].sort < r[j].sort \/ (r[i].sort = r[j].sort /\ i < j)
Earlier(r, i) == { j \in DOMAIN r : Before(r, j, i) }
InOrder(r) == [k \in 1 .. Cardinality(DOMAIN r) |->
                 CHOOSE i \in DOMAIN r : Cardinality(Earlier(r, i)) = k - 1]
OnPage(r) == LET order == InOrder(r)
             IN [k \in DOMAIN order |-> [id |-> order[k], cover |-> r[order[k]].cover]]

CoverIds(r) == { i \in DOMAIN r : r[i].cover }
Previewing == preview \in DOMAIN images
Free == confirming = 0 /\ ~reported /\ ~Previewing
busyImages == tasks # << >>

-----------------------------------------------------------------------------
(* What the admin does.                                                    *)
Do(t) ==
  /\ Len(tasks) < MaxTasks
  /\ tasks' = Append(tasks, t)
  /\ UNCHANGED << stored, images, refetching, preview, mixed >>

uploadAll(n) ==
  /\ Free /\ ~busyImages
  /\ Do([kind |-> "upload", left |-> n])
  /\ UNCHANGED dialogs

\* move: the ids of the page's list with two neighbours swapped, each to be
\* given its index.
Asked(k) == [j \in DOMAIN images |->
               images[IF j = k THEN k + 1 ELSE IF j = k + 1 THEN k ELSE j].id]
Patches_SwappedOnly(k) == << << Asked(k)[k], k - 1 >>, << Asked(k)[k + 1], k >> >>
Patches(k) == [j \in DOMAIN images |-> << Asked(k)[j], j - 1 >>]

move(k) ==
  /\ Free /\ ~busyImages /\ k + 1 \in DOMAIN images
  /\ Do([kind |-> "order", left |-> Patches(k), asked |-> Asked(k)])
  /\ UNCHANGED dialogs

makeCover(k) ==
  /\ Free /\ ~busyImages /\ ~images[k].cover
  /\ Do([kind |-> "cover", id |-> images[k].id])
  /\ UNCHANGED dialogs

\* saveAlt, when an input is left: whatever else is under way.
saveAlt(k) ==
  /\ Free
  /\ Do([kind |-> "alt", id |-> images[k].id])
  /\ UNCHANGED dialogs

askDelete(k) ==
  /\ Free /\ ~busyImages
  /\ confirming' = images[k].id
  /\ UNCHANGED << stored, images, tasks, refetching, reported, preview, mixed >>

confirmImage ==
  /\ confirming # 0 /\ ~busyImages
  /\ Do([kind |-> "delete", id |-> confirming])
  /\ UNCHANGED dialogs

closeModal ==
  /\ \/ confirming # 0 /\ ~busyImages /\ confirming' = 0 /\ UNCHANGED reported
     \/ confirming = 0 /\ reported /\ reported' = FALSE /\ UNCHANGED confirming
  /\ UNCHANGED << stored, images, tasks, refetching, preview, mixed >>

\* ImagePreview, which keeps a place and not an image: the list may change under
\* it, or grow short of the place and long enough again.  Which of two open
\* dialogs is on top, and so the one that can be used, is left open.
openPreview(k) ==
  /\ Free
  /\ preview' = k
  /\ UNCHANGED << stored, images, tasks, refetching, dialogs, mixed >>

stepPreview(k) ==
  /\ Previewing
  /\ k \in { preview - 1, preview + 1 }
  /\ preview' = k
  /\ UNCHANGED << stored, images, tasks, refetching, dialogs, mixed >>

closePreview ==
  /\ Previewing
  /\ preview' = 0
  /\ UNCHANGED << stored, images, tasks, refetching, dialogs, mixed >>

-----------------------------------------------------------------------------
(* What the server does of the oldest task.                                *)
Oldest == tasks[1]

Drop(i) == [j \in DOMAIN rows \ {i} |-> rows[j]]
Cover(r, i) == [j \in DOMAIN r |-> [r[j] EXCEPT !.cover = (j = i)]]

\* AdminCreateUnitImage: last in order, and the cover if there is none.
Uploaded == [j \in DOMAIN rows \cup {ids + 1} |->
               IF j = ids + 1
               THEN [sort |-> Max({ rows[k].sort + 1 : k \in DOMAIN rows } \cup {0}),
                     cover |-> CoverIds(rows) = {}]
               ELSE rows[j]]

\* adminPatchUnitImage with a sort alone: the rest is what the row has.  It is one
\* step, as the row is read and written back under the unit's lock; a DELETE, which
\* takes no lock, may come between and makes it fail as if it had come before.
Sorted_AsOnThePage(i, s) ==
  LET r == [rows EXCEPT ![i].sort = s]
      seen == { k \in DOMAIN images : images[k].id = i /\ images[k].cover }
  IN IF seen # {} THEN Cover(r, i) ELSE [r EXCEPT ![i].cover = FALSE]
Sorted(i, s) == [rows EXCEPT ![i].sort = s]

\* A task that is done revalidates the page, which comes with the answer.
Done ==
  /\ tasks' = Tail(tasks)
  /\ images' = OnPage(rows')
  /\ refetching' = TRUE

uploadImage ==
  /\ busyImages /\ Oldest.kind = "upload" /\ ids < MaxImages
  /\ rows' = Uploaded /\ ids' = ids + 1
  /\ IF Oldest.left > 1
     THEN /\ tasks' = Append(Tail(tasks), [Oldest EXCEPT !.left = @ - 1])
          /\ images' = OnPage(rows')
          /\ UNCHANGED << reported, refetching >>
     ELSE Done /\ reported' = TRUE
  /\ UNCHANGED << confirming, preview, mixed >>

\* reorderImages, one PATCH of it.
reorderImages ==
  /\ busyImages /\ Oldest.kind = "order"
  /\ LET patch == Oldest.left[1]
     IN /\ patch[1] \in DOMAIN rows
        /\ rows' = Sorted(patch[1], patch[2])
  /\ IF Len(Oldest.left) > 1
     THEN /\ tasks' = [tasks EXCEPT ![1].left = Tail(@)]
          /\ UNCHANGED << images, refetching, mixed >>
     ELSE Done /\ mixed' = FALSE
  /\ UNCHANGED << ids, dialogs, preview >>

updateImage ==
  /\ busyImages /\ Oldest.kind \in { "cover", "alt" } /\ Oldest.id \in DOMAIN rows
  /\ rows' = IF Oldest.kind = "cover" THEN Cover(rows, Oldest.id) ELSE rows
  /\ Done
  /\ UNCHANGED << ids, dialogs, preview, mixed >>

deleteImage ==
  /\ busyImages /\ Oldest.kind = "delete" /\ Oldest.id \in DOMAIN rows
  /\ rows' = Drop(Oldest.id)
  /\ Done
  /\ confirming' = 0 /\ reported' = TRUE
  /\ UNCHANGED << ids, preview, mixed >>

\* Refused, not found or not reached, with some of its requests done: the
\* banner, and the page is fetched anew.
TaskFails ==
  /\ busyImages
  /\ tasks' = Tail(tasks) /\ refetching' = TRUE
  /\ confirming' = IF Oldest.kind = "delete" THEN 0 ELSE confirming
  /\ mixed' = (mixed /\ Oldest.kind # "order")
  /\ UNCHANGED << stored, images, reported, preview >>

RefreshArrives ==
  /\ refetching
  /\ images' = OnPage(rows) /\ refetching' = FALSE
  /\ UNCHANGED << stored, tasks, dialogs, preview, mixed >>

-----------------------------------------------------------------------------
(* Other admins, one request at a time.                                    *)
OthersUpload ==
  /\ ids < MaxImages
  /\ rows' = Uploaded /\ ids' = ids + 1
  /\ UNCHANGED << images, tasks, refetching, dialogs, preview, mixed >>

OthersSort(i, s) ==
  /\ rows' = [rows EXCEPT ![i].sort = s]
  /\ mixed' = (mixed \/ \E k \in DOMAIN tasks : tasks[k].kind = "order")
  /\ UNCHANGED << ids, images, tasks, refetching, dialogs, preview >>

OthersCover(i) ==
  /\ rows' = Cover(rows, i)
  /\ UNCHANGED << ids, images, tasks, refetching, dialogs, preview, mixed >>

OthersDrop(i) ==
  /\ rows' = Drop(i)
  /\ UNCHANGED << ids, images, tasks, refetching, dialogs, preview, mixed >>

ImagesInit ==
  /\ ids \in 0 .. 2
  /\ rows = [i \in 1 .. ids |-> [sort |-> i - 1, cover |-> i = 1]]
  /\ images = OnPage(rows)
  /\ tasks = << >> /\ refetching = FALSE
  /\ confirming = 0 /\ reported = FALSE /\ preview = 0 /\ mixed = FALSE

ImagesNext ==
  \/ \E n \in 1 .. 2 : uploadAll(n)
  \/ \E k \in DOMAIN images : move(k) \/ makeCover(k) \/ saveAlt(k) \/ askDelete(k)
  \/ \E k \in DOMAIN images : openPreview(k) \/ stepPreview(k)
  \/ closePreview \/ confirmImage \/ closeModal
  \/ uploadImage \/ reorderImages \/ updateImage \/ deleteImage \/ TaskFails \/ RefreshArrives
  \/ OthersUpload
  \/ \E i \in DOMAIN rows : OthersCover(i) \/ OthersDrop(i) \/ \E s \in 0 .. MaxSort : OthersSort(i, s)

ImagesSpec == ImagesInit /\ [][ImagesNext]_imagevars

-----------------------------------------------------------------------------
(* Properties.                                                             *)

\* "Order saved" is true: when the last PATCH is through, the page shows every
\* image that is still there, in the order that was asked for, whatever gaps
\* and ties interrupted moves and deletions had left, unless another admin
\* ordered them meanwhile.
OrderSavedIsTrue ==
  [][reorderImages /\ tasks' = Tail(tasks) /\ ~mixed =>
       /\ \A i \in DOMAIN rows' : \E m \in DOMAIN images' : images'[m].id = i
       /\ \A j, k \in DOMAIN Oldest.asked, m, n \in DOMAIN images' :
            j < k /\ images'[m].id = Oldest.asked[j] /\ images'[n].id = Oldest.asked[k]
            => m < n]_imagevars

\* The cover is given to another image, or taken, only where that was asked
\* for: ordering images by an old page does not bring an old cover back, and
\* an upload does not take it.
CoverChangesWhenAsked ==
  [][\A i \in CoverIds(rows) \cap DOMAIN rows' : CoverIds(rows') # {i} =>
       \/ \E j \in DOMAIN rows : OthersCover(j)
       \/ updateImage /\ CoverIds(rows') = {Oldest.id}]_imagevars
=============================================================================
