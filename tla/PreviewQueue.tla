---------------------------- MODULE PreviewQueue ----------------------------
(***************************************************************************)
(* The preview queue of static/app.js as operators on its state: one image *)
(* at a time is given its source, in the order of the cards, twice at most.*)
(* Groups of results come and go, and events and timers may come late.     *)
(* Each handler of the page runs to its end, so what it calls composes.    *)
(***************************************************************************)
EXTENDS Restriction, Sequences, SequencesExt

CONSTANTS
  NoEntry,
  MaxAttempts   (* entry.attempts                                          *)

ASSUME PreviewAssumption ==
  /\ NoEntry \notin Nat \ {0}
  /\ MaxAttempts \in Nat \ {0}

(* generation: previewGeneration.  timers: entries that previewRetryTimers *)
(* will queue again.  entry: every image that was ever queued.  load: what *)
(* its element is doing; "late", if its source was taken away and an event *)
(* may still come.  group: generation, the images its root contains and    *)
(* whether the root is in the page.                                        *)
NoPreviews ==
  [generation |-> 0, queue |-> <<>>, active |-> NoEntry, timers |-> {},
   entry |-> <<>>, group |-> <<>>]

(* Faulty variant of IsCurrent: only the element itself is looked at.      *)
IsImage(p, e) == p.entry[e].visual = "image"

(* isCurrentPreviewEntry                                                   *)
IsCurrent(p, e) ==
  LET x == p.entry[e] IN
  /\ x.generation = p.generation
  /\ x.groupGeneration = p.group[x.group].generation
  /\ x.visual = "image"
  /\ p.group[x.group].shown
  /\ e \in p.group[x.group].images

(* removeAttribute('src') of the active image                              *)
DropActive(p) ==
  IF p.active = NoEntry THEN p
  ELSE [p EXCEPT !.active = NoEntry, !.entry[p.active].load = "late"]

(* cancelPreviewLoading                                                    *)
CancelLoading(p) ==
  [DropActive(p) EXCEPT !.generation = @ + 1, !.queue = <<>>, !.timers = {}]

(* The entries of all other groups.                                        *)
Others(p, g) == {e \in DOMAIN p.entry : p.entry[e].group # g}

(* Faulty variant of InvalidateGroup: the active image is left to itself.  *)
InvalidateLeavesActive(p, g) ==
  [p EXCEPT !.group[g].generation = @ + 1,
            !.queue = Restricted(@, Others(p, g))]

(* invalidateGroupPreviews                                                 *)
InvalidateGroup(p, g) ==
  [IF p.active \in Others(p, g) THEN p ELSE DropActive(p) EXCEPT
     !.group[g].generation = @ + 1,
     !.queue = Restricted(@, Others(p, g))]

(* pumpPreviewQueue: entries that are not current are dropped on the way.  *)
Pump(p) ==
  LET Current(e) == IsCurrent(p, e)
      live == SelectInSeq(p.queue, Current)
      e == p.queue[live]
  IN
  IF p.active # NoEntry THEN p
  ELSE IF live = 0 THEN [p EXCEPT !.queue = <<>>]
  ELSE [p EXCEPT !.queue = SubSeq(@, live + 1, Len(@)),
                 !.active = e,
                 !.entry[e].attempts = @ + 1,
                 !.entry[e].load = "loading"]

(* replacePreviewWithFallback                                              *)
Fallback(p, e) ==
  IF IsCurrent(p, e) THEN [p EXCEPT !.entry[e].visual = "fallback"] ELSE p

(* Faulty variant of Failed: the attempts are counted afresh.              *)
FailedAfresh(p, e) == Pump([p EXCEPT !.timers = @ \cup {e}, !.entry[e].attempts = 0])

(* The active image has failed: schedulePreviewRetry or the fallback.      *)
Failed(p, e) ==
  Pump(IF p.entry[e].attempts < MaxAttempts
       THEN [p EXCEPT !.timers = @ \cup {e}]
       ELSE Fallback(p, e))

(* completePreviewAttempt                                                  *)
Complete(p, e, loaded) ==
  IF ~IsCurrent(p, e) THEN p
  ELSE IF p.active # e THEN IF loaded THEN p ELSE Fallback(p, e)
  ELSE LET q == [p EXCEPT !.active = NoEntry]
       IN IF loaded THEN Pump(q) ELSE Failed(q, e)

(* The callback of schedulePreviewRetry                                    *)
Retry(p, e) ==
  LET q == [p EXCEPT !.timers = @ \ {e}] IN
  IF IsCurrent(q, e) THEN Pump([q EXCEPT !.queue = Append(@, e)]) ELSE q

(* clearResults                                                            *)
ClearResults(p) ==
  [CancelLoading(p) EXCEPT
     !.group = [g \in DOMAIN @ |-> [@[g] EXCEPT !.shown = FALSE, !.images = {}]]]

(* renderMediaCard, for the n media of a payload that have a preview to    *)
(* load: their images become those of the group.                           *)
RenderCards(p, g, n) ==
  LET count == Len(p.entry)
      Queued(i) ==
        [group |-> g, generation |-> p.generation,
         groupGeneration |-> p.group[g].generation,
         attempts |-> 0, visual |-> "image", load |-> "idle"]
  IN
  [p EXCEPT !.entry = @ \o [i \in 1..n |-> Queued(i)],
            !.queue = @ \o [i \in 1..n |-> count + i],
            !.group[g].images = (count + 1)..(count + n),
            !.group[g].shown = TRUE]

(* renderResults, of a new group and of an existing one                    *)
RenderNew(p, n) ==
  LET q == [p EXCEPT !.group =
              Append(@, [generation |-> 0, images |-> {}, shown |-> FALSE])]
  IN Pump(RenderCards(q, Len(q.group), n))

RenderAgain(p, g, n) == Pump(RenderCards(InvalidateGroup(p, g), g, n))
=============================================================================
