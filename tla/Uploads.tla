------------------------------ MODULE Uploads ------------------------------
(***************************************************************************)
(* The upload queue of athenad: calls add files to it and cancel them,     *)
(* several workers take items from it, upload them and put back what has   *)
(* to be tried again, and the queue is kept in the param                   *)
(* AthenadUploadQueue, from which the next athenad begins.                 *)
(*                                                                         *)
(* UploadQueueCache.cache lists the queue and then writes the list;        *)
(* nothing orders the lists of two threads.  Priorities, ages and the      *)
(* contents of the files are abstract.                                     *)
(***************************************************************************)
EXTENDS Naturals, FiniteSets, Functions

CONSTANTS
  Files, Workers, NoItem,
  MaxRetryCount,
  UploadHappens,       \* the unlucky timings a run allows, see UploadTimings
  MaxAdds, MaxUploadChanges   \* bounds: items added; changes of the network, cancels and crashes

\* "crash": athenad dies with an upload or a write under way; "overlap": two threads write the
\* param at once.
UploadTimings == {"crash", "overlap"}

ASSUME UploadsAssumption ==
  /\ IsFiniteSet(Workers) /\ Workers # {} /\ NoItem \notin [id: Nat, file: Files, retries: Nat]
  /\ {MaxRetryCount, MaxAdds, MaxUploadChanges} \subseteq Nat /\ UploadHappens \subseteq UploadTimings

VARIABLES
  uploadQueue,         \* upload_queue: items, which are distinct
  hand, workerPc,      \* an entry of cur_upload_items, and where its worker is
  cancelledUploads,    \* ids
  cachedQueue, cacheWrites,   \* the param, and lists on the way to it
  online, metered,     \* end_event is not set; the network is metered
  added, ended,        \* history: items added, ids uploaded, cancelled, expired or given up
  uploadChanges

uploadVars == <<uploadQueue, hand, workerPc, cancelledUploads, cachedQueue, cacheWrites, online, metered,
                added, ended, uploadChanges>>

UploadsInit ==
  /\ uploadQueue = {} /\ hand = [w \in Workers |-> NoItem] /\ workerPc = [w \in Workers |-> "get"]
  /\ cancelledUploads = {} /\ cachedQueue = {} /\ cacheWrites = {}
  /\ online = TRUE /\ metered = FALSE /\ added = 0 /\ ended = {} /\ uploadChanges = 0

UploadChange == uploadChanges < MaxUploadChanges /\ uploadChanges' = uploadChanges + 1

\* The list that cache makes of a queue; it is written by CacheLands.
CacheList(items) ==
  /\ "overlap" \in UploadHappens \/ cacheWrites = {}
  /\ cacheWrites' = cacheWrites \cup {{item \in items : item.id \notin cancelledUploads}}

CacheLands ==
  /\ \E items \in cacheWrites : cachedQueue' = items /\ cacheWrites' = cacheWrites \ {items}
  /\ UNCHANGED <<uploadQueue, hand, workerPc, cancelledUploads, online, metered, added, ended, uploadChanges>>

-----------------------------------------------------------------------------
\* Calls

\* listUploadQueue
Listed == {item \in uploadQueue \cup (Range(hand) \ {NoItem}) : item.id \notin cancelledUploads}

\* uploadFilesToUrls, of a file that is there and not yet listed
AddUpload ==
  /\ online /\ added < MaxAdds /\ added' = added + 1
  /\ \E file \in Files :
       /\ \A item \in Listed : item.file # file
       /\ uploadQueue' = uploadQueue \cup {[id |-> added + 1, file |-> file, retries |-> 0]}
  /\ CacheList(uploadQueue')
  /\ UNCHANGED <<hand, workerPc, cancelledUploads, cachedQueue, online, metered, ended, uploadChanges>>

\* cancelUpload, of an item that waits
CancelUpload ==
  /\ online /\ UploadChange
  /\ \E item \in uploadQueue :
       cancelledUploads' = cancelledUploads \cup {item.id} /\ ended' = ended \cup {item.id}
  /\ UNCHANGED <<uploadQueue, hand, workerPc, cachedQueue, cacheWrites, online, metered, added>>

-----------------------------------------------------------------------------
\* upload_handler

TakeUpload(w) ==
  /\ online /\ workerPc[w] = "get" /\ workerPc' = [workerPc EXCEPT ![w] = "taken"]
  /\ \E item \in uploadQueue :
       hand' = [hand EXCEPT ![w] = item] /\ uploadQueue' = uploadQueue \ {item}
  /\ UNCHANGED <<cancelledUploads, cachedQueue, cacheWrites, online, metered, added, ended, uploadChanges>>

\* The item leaves the worker: it has ended.
Finish(w) ==
  /\ ended' = ended \cup {hand[w].id}
  /\ hand' = [hand EXCEPT ![w] = NoItem] /\ workerPc' = [workerPc EXCEPT ![w] = "get"]

\* retry_upload: it is put back, which counts as a try or not, until the tries are used up;
\* then the worker waits.
MutRetry(w, counts) ==
  IF hand[w].retries < MaxRetryCount
  THEN /\ uploadQueue' = uploadQueue \cup {[hand[w] EXCEPT !.retries = @ + counts]}
       /\ CacheList(uploadQueue)
       /\ hand' = [hand EXCEPT ![w] = NoItem] /\ workerPc' = [workerPc EXCEPT ![w] = "delay"]
       /\ UNCHANGED ended
  ELSE Finish(w) /\ UNCHANGED <<uploadQueue, cacheWrites>>
Retry(w, counts) ==
  IF hand[w].retries < MaxRetryCount
  THEN /\ uploadQueue' = uploadQueue \cup {[hand[w] EXCEPT !.retries = @ + counts]}
       /\ CacheList(uploadQueue')
       /\ hand' = [hand EXCEPT ![w] = NoItem] /\ workerPc' = [workerPc EXCEPT ![w] = "delay"]
       /\ UNCHANGED ended
  ELSE Finish(w) /\ UNCHANGED <<uploadQueue, cacheWrites>>

\* Cancelled or too old items are dropped, some wait for another network.
CheckUpload(w) ==
  /\ workerPc[w] = "taken"
  /\ \/ /\ hand[w].id \in cancelledUploads /\ cancelledUploads' = cancelledUploads \ {hand[w].id}
        /\ Finish(w) /\ UNCHANGED <<uploadQueue, cacheWrites>>
     \/ /\ hand[w].id \notin cancelledUploads /\ UNCHANGED cancelledUploads
        /\ \/ Finish(w) /\ UNCHANGED <<uploadQueue, cacheWrites>>
           \/ metered /\ Retry(w, 0)
           \/ /\ ~metered /\ workerPc' = [workerPc EXCEPT ![w] = "uploading"]
              /\ UNCHANGED <<uploadQueue, hand, cacheWrites, ended>>
  /\ UNCHANGED <<cachedQueue, online, metered, added, uploadChanges>>

\* _do_upload: a final answer, another answer or none, an abort by cb, an error.
EndUpload(w) ==
  /\ workerPc[w] = "uploading"
  /\ \/ Finish(w) /\ CacheList(uploadQueue) /\ UNCHANGED uploadQueue
     \/ Retry(w, 1)
     \/ (metered \/ ~online) /\ Retry(w, 0)
     \/ Finish(w) /\ UNCHANGED <<uploadQueue, cacheWrites>>
  /\ UNCHANGED <<cancelledUploads, cachedQueue, online, metered, added, uploadChanges>>

UploadDelay(w) ==
  /\ workerPc[w] = "delay" /\ workerPc' = [workerPc EXCEPT ![w] = "get"]
  /\ UNCHANGED <<uploadQueue, hand, cancelledUploads, cachedQueue, cacheWrites, online, metered, added, ended,
                 uploadChanges>>

-----------------------------------------------------------------------------
\* The network, and athenad as a whole

UploadNetwork ==
  /\ UploadChange
  /\ \/ metered' = ~metered /\ UNCHANGED online
     \/ online /\ online' = FALSE /\ UNCHANGED metered
  /\ UNCHANGED <<uploadQueue, hand, workerPc, cancelledUploads, cachedQueue, cacheWrites, added, ended>>

\* handle_long_poll joins the workers before the next connection.
Reconnect ==
  /\ ~online /\ online' = TRUE /\ \A w \in Workers : workerPc[w] = "get"
  /\ UNCHANGED <<uploadQueue, hand, workerPc, cancelledUploads, cachedQueue, cacheWrites, metered, added, ended,
                 uploadChanges>>

\* Another athenad begins with the items of the param.
RestartUploads ==
  /\ UploadChange
  /\ "crash" \in UploadHappens \/ (cacheWrites = {} /\ \A w \in Workers : hand[w] = NoItem)
  /\ uploadQueue' = cachedQueue /\ cancelledUploads' = {} /\ cacheWrites' = {} /\ online' = TRUE
  /\ hand' = [w \in Workers |-> NoItem] /\ workerPc' = [w \in Workers |-> "get"]
  /\ UNCHANGED <<cachedQueue, metered, added, ended>>

UploadWorker(w) == TakeUpload(w) \/ CheckUpload(w) \/ EndUpload(w) \/ UploadDelay(w)

UploadsNext ==
  \/ CacheLands \/ AddUpload \/ CancelUpload \/ UploadNetwork \/ Reconnect \/ RestartUploads
  \/ \E w \in Workers : UploadWorker(w)

UploadsSpec == UploadsInit /\ [][UploadsNext]_uploadVars

-----------------------------------------------------------------------------
\* Properties

\* The values each variable takes.
UploadsTypeOK ==
  LET Items == [id: 1..MaxAdds, file: Files, retries: 0..MaxRetryCount]
  IN /\ uploadQueue \subseteq Items /\ hand \in [Workers -> Items \cup {NoItem}]
     /\ workerPc \in [Workers -> {"get", "taken", "uploading", "delay"}]
     /\ cancelledUploads \subseteq 1..MaxAdds /\ ended \subseteq 1..MaxAdds
     /\ cachedQueue \subseteq Items /\ \A items \in cacheWrites : items \subseteq Items
     /\ online \in BOOLEAN /\ metered \in BOOLEAN
     /\ added \in 0..MaxAdds /\ uploadChanges \in 0..MaxUploadChanges

\* With a network in the end every file that was accepted is uploaded or cancelled, expires, or
\* has used up its tries: no item gets lost between the queue, the workers and the param, by
\* reconnects, metered networks and restarts of athenad (retry_upload, UploadQueueCache).
UploadsEnd == <>[](online /\ ~metered) => <>[](\A id \in 1..added : id \in ended)
=============================================================================
