------------------------ MODULE RequestLimiter_proofs ------------------------
(***************************************************************************)
(* The limiter for any clients, leases and limits: its counters agree with *)
(* the leases held, the limits hold for the leases, and it implements the  *)
(* pool.                                                                   *)
(***************************************************************************)
EXTENDS RequestLimiter, FiniteSetTheorems, FunctionTheorems, TLAPS

USE DEF Kinds

(* The set of clients has as many members as leases are held: what the     *)
(* guard of AcquireExtraction counts is what WithinLimits is about.        *)
ExtractionsCounted ==
  /\ IsFiniteSet(activeExtractions)
  /\ Cardinality(activeExtractions) = Cardinality(HeldLeases("extraction"))

LimiterInv ==
  /\ LimiterTypeOK
  /\ DownloadAccounting
  /\ ExtractionAccounting
  /\ ExtractionsCounted
  /\ WithinLimits

-----------------------------------------------------------------------------

(* Leases are held in finite numbers.                                      *)
LEMMA HeldFinite ==
  /\ \A k : IsFiniteSet(HeldLeases(k)) /\ Cardinality(HeldLeases(k)) \in Nat
  /\ \A k, c : IsFiniteSet(HeldBy(k, c)) /\ Cardinality(HeldBy(k, c)) \in Nat
<1>1. ASSUME NEW k PROVE IsFiniteSet(HeldLeases(k))
  <2>1. HeldLeases(k) \in SUBSET Leases
    BY DEF HeldLeases
  <2> QED
    BY <2>1, LeasesAssumption, FS_Subset
<1>2. ASSUME NEW k, NEW c PROVE IsFiniteSet(HeldBy(k, c))
  <2>1. HeldBy(k, c) \in SUBSET HeldLeases(k)
    BY DEF HeldBy
  <2> QED
    BY <2>1, <1>1, FS_Subset
<1> QED
  BY <1>1, <1>2, FS_CardinalityType

(* Handing out a fresh lease adds it to the leases of its kind and client, *)
(* and to no other.                                                        *)
LEMMA HandOutHeld ==
  ASSUME LimiterTypeOK,
         NEW l \in Leases, NEW k \in Kinds, NEW c \in Clients,
         Fresh(l), HandOut(l, k, c)
  PROVE  /\ lease' \in [Leases -> LeaseRecord \cup {NoLease}]
         /\ lease'[l] = [kind |-> k, client |-> c, released |-> FALSE]
         /\ \A x \in Leases : x # l => lease'[x] = lease[x]
         /\ l \notin HeldLeases(k)
         /\ HeldLeases(k)' = HeldLeases(k) \cup {l}
         /\ \A j \in Kinds \ {k} : HeldLeases(j)' = HeldLeases(j)
<1>1. lease \in [Leases -> LeaseRecord \cup {NoLease}]
  BY DEF LimiterTypeOK
<1>2. /\ lease'[l] = [kind |-> k, client |-> c, released |-> FALSE]
      /\ \A x \in Leases : x # l => lease'[x] = lease[x]
  BY <1>1 DEF HandOut
<1>3. lease' \in [Leases -> LeaseRecord \cup {NoLease}]
  BY <1>1 DEF HandOut, LeaseRecord
<1>4. lease'[l] # NoLease
  BY <1>2 DEF NoLease
<1>5. Held(l)' /\ ~Held(l)
  BY <1>2, <1>4 DEF Held, Fresh
<1>6. \A x \in Leases : x # l => (Held(x)' <=> Held(x))
  BY <1>2 DEF Held
<1>7. HeldLeases(k)' = HeldLeases(k) \cup {l}
  BY <1>2, <1>5, <1>6 DEF HeldLeases
<1>8. ASSUME NEW j \in Kinds \ {k} PROVE HeldLeases(j)' = HeldLeases(j)
  BY <1>2, <1>5, <1>6 DEF HeldLeases
<1> QED
  BY <1>2, <1>3, <1>5, <1>7, <1>8 DEF HeldLeases

(* The first release of a lease takes it from the leases of its kind and   *)
(* from no other.                                                          *)
LEMMA ReleaseHeld ==
  ASSUME LimiterTypeOK,
         NEW l \in Leases, Held(l),
         lease' = [lease EXCEPT ![l].released = TRUE]
  PROVE  /\ lease' \in [Leases -> LeaseRecord \cup {NoLease}]
         /\ lease[l] \in LeaseRecord
         /\ \A x \in Leases : lease'[x].kind = lease[x].kind
         /\ \A x \in Leases : x # l => lease'[x] = lease[x]
         /\ l \in HeldLeases(lease[l].kind)
         /\ \A k : HeldLeases(k)' = HeldLeases(k) \ {l}
<1>1. lease \in [Leases -> LeaseRecord \cup {NoLease}]
  BY DEF LimiterTypeOK
<1>2. lease[l] \in LeaseRecord
  BY <1>1 DEF Held
<1>3. /\ lease'[l] = [lease[l] EXCEPT !.released = TRUE]
      /\ \A x \in Leases : x # l => lease'[x] = lease[x]
  BY <1>1
<1>4. /\ lease'[l] \in LeaseRecord
      /\ lease'[l].kind = lease[l].kind
      /\ lease'[l].client = lease[l].client
      /\ lease'[l].released
  <2>1. PICK k \in Kinds, c \in Clients, b \in BOOLEAN :
          lease[l] = [kind |-> k, client |-> c, released |-> b]
    BY <1>2 DEF LeaseRecord
  <2>2. lease'[l] = [[kind |-> k, client |-> c, released |-> b]
                        EXCEPT !.released = TRUE]
    BY <1>3, <2>1, Zenon
  <2>3. lease'[l] = [kind |-> k, client |-> c, released |-> TRUE]
    BY <2>2
  <2>4. lease'[l] \in LeaseRecord
    <3>1. [kind |-> k, client |-> c, released |-> TRUE] \in LeaseRecord
      BY DEF LeaseRecord
    <3> QED
      BY <2>3, <3>1, Zenon
  <2>5. lease'[l].kind = k /\ lease'[l].client = c
    BY <2>3
  <2>6. lease[l].kind = k /\ lease[l].client = c
    BY <2>1
  <2>7. lease'[l].released
    BY <2>3
  <2> QED
    BY <2>4, <2>5, <2>6, <2>7
<1>5. lease' \in [Leases -> LeaseRecord \cup {NoLease}]
  BY <1>1, <1>3, <1>4
<1>6. ~Held(l)'
  BY <1>4 DEF Held
<1>7. \A x \in Leases : x # l => (Held(x)' <=> Held(x))
  BY <1>3 DEF Held
<1>8. ASSUME NEW k PROVE HeldLeases(k)' = HeldLeases(k) \ {l}
  BY <1>3, <1>6, <1>7 DEF HeldLeases
<1>9. l \in HeldLeases(lease[l].kind)
  BY DEF HeldLeases
<1> QED
  BY <1>2, <1>3, <1>4, <1>5, <1>8, <1>9
-----------------------------------------------------------------------------

(* At the start no lease is held and every counter is zero.                *)
LEMMA InitInv == LimiterInit => LimiterInv
<1> SUFFICES ASSUME LimiterInit PROVE LimiterInv
  OBVIOUS
<1>1. \A l \in Leases : lease[l] = NoLease
  BY DEF LimiterInit
<1>2. \A k : HeldLeases(k) = {}
  BY <1>1 DEF HeldLeases, Held
<1>3. \A k, c : HeldBy(k, c) = {}
  BY <1>2 DEF HeldBy
<1>4. Cardinality({}) = 0 /\ IsFiniteSet({})
  BY FS_EmptySet
<1>5. LimiterTypeOK
  BY DEF LimiterInit, LimiterTypeOK
<1>6. DownloadAccounting
  BY <1>2, <1>3, <1>4 DEF DownloadAccounting, LimiterInit, DownloadsOf
<1>7. ExtractionAccounting /\ ExtractionsCounted
  BY <1>2, <1>4 DEF ExtractionAccounting, ExtractionsCounted, LimiterInit
<1>8. WithinLimits
  BY <1>2, <1>3, <1>4, LimitsAssumption DEF WithinLimits
<1> QED
  BY <1>5, <1>6, <1>7, <1>8 DEF LimiterInv

(* What happens to the leases of one kind leaves the accounting of the     *)
(* other kind alone.                                                       *)
LEMMA DownloadsUntouched ==
  ASSUME DownloadAccounting, WithinLimits,
         UNCHANGED <<activeDownloads, activeDownloadsByClient>>,
         HeldLeases("download")' = HeldLeases("download"),
         \A x \in HeldLeases("download") : lease'[x] = lease[x]
  PROVE  /\ DownloadAccounting'
         /\ Cardinality(HeldLeases("download"))' <= MaxDownloads
         /\ \A c \in Clients :
              Cardinality(HeldBy("download", c))' <= MaxDownloadsPerClient
<1>1. \A c : HeldBy("download", c)' = HeldBy("download", c)
  BY DEF HeldBy
<1>2. \A c : DownloadsOf(c)' = DownloadsOf(c)
  BY DEF DownloadsOf
<1> QED
  BY <1>1, <1>2 DEF DownloadAccounting, WithinLimits

LEMMA ExtractionsUntouched ==
  ASSUME ExtractionAccounting, ExtractionsCounted, WithinLimits,
         UNCHANGED activeExtractions,
         HeldLeases("extraction")' = HeldLeases("extraction"),
         \A x \in HeldLeases("extraction") : lease'[x] = lease[x]
  PROVE  /\ ExtractionAccounting'
         /\ ExtractionsCounted'
         /\ Cardinality(HeldLeases("extraction"))' <= MaxExtractions
BY DEF ExtractionAccounting, ExtractionsCounted, WithinLimits

(* Admitting an extraction keeps the invariant.                            *)
LEMMA AcquireExtractionInv ==
  ASSUME LimiterInv, NEW l \in Leases, NEW c \in Clients,
         AcquireExtraction(l, c)
  PROVE  LimiterInv'
<1> DEFINE H == HeldLeases("extraction")
<1>1. /\ LimiterTypeOK /\ DownloadAccounting
      /\ ExtractionAccounting /\ ExtractionsCounted /\ WithinLimits
  BY DEF LimiterInv
<1>2. /\ Fresh(l) /\ ~ExtractionRefused(c)
      /\ activeExtractions' = activeExtractions \cup {c}
      /\ HandOut(l, "extraction", c)
      /\ UNCHANGED <<activeDownloads, activeDownloadsByClient>>
  BY DEF AcquireExtraction
<1>3. /\ lease' \in [Leases -> LeaseRecord \cup {NoLease}]
      /\ lease'[l] = [kind |-> "extraction", client |-> c, released |-> FALSE]
      /\ \A x \in Leases : x # l => lease'[x] = lease[x]
      /\ l \notin H
      /\ H' = H \cup {l}
      /\ HeldLeases("download")' = HeldLeases("download")
  BY <1>1, <1>2, HandOutHeld
<1>4. LimiterTypeOK'
  BY <1>1, <1>2, <1>3 DEF LimiterTypeOK
<1>5. l \notin HeldLeases("download")
  BY <1>2 DEF HeldLeases, Fresh
<1>6. \A x \in HeldLeases("download") : x \in Leases /\ x # l
  BY <1>5 DEF HeldLeases
<1>7. /\ DownloadAccounting'
      /\ Cardinality(HeldLeases("download"))' <= MaxDownloads
      /\ \A d \in Clients :
           Cardinality(HeldBy("download", d))' <= MaxDownloadsPerClient
  BY <1>1, <1>2, <1>3, <1>6, DownloadsUntouched
<1>8. c \notin activeExtractions /\ ~(Cardinality(activeExtractions) >= MaxExtractions)
  BY <1>2 DEF ExtractionRefused
<1>9. \A x \in H : x \in Leases /\ x # l /\ lease'[x] = lease[x]
  BY <1>3 DEF HeldLeases
<1>10. ExtractionAccounting'
  <2>1. lease'[l].client = c
    BY <1>3
  <2>2. activeExtractions' = {lease'[x].client : x \in H'}
    BY <1>1, <1>2, <1>3, <1>9, <2>1 DEF ExtractionAccounting
  <2>3. ASSUME NEW x \in H', NEW y \in H', lease'[x].client = lease'[y].client
        PROVE  x = y
    BY <1>1, <1>3, <1>8, <1>9, <2>1, <2>3 DEF ExtractionAccounting
  <2> QED
    BY <2>2, <2>3 DEF ExtractionAccounting
<1>11. /\ Cardinality(H') = Cardinality(H) + 1
       /\ IsFiniteSet(activeExtractions')
       /\ Cardinality(activeExtractions') = Cardinality(activeExtractions) + 1
  BY <1>1, <1>2, <1>3, <1>8, HeldFinite, FS_AddElement DEF ExtractionsCounted
<1>12. ExtractionsCounted'
  BY <1>1, <1>11 DEF ExtractionsCounted
<1>13. Cardinality(H') <= MaxExtractions
  BY <1>1, <1>8, <1>11, HeldFinite, LimitsAssumption DEF ExtractionsCounted
<1> QED
  BY <1>4, <1>7, <1>10, <1>12, <1>13 DEF LimiterInv, WithinLimits

(* Admitting a download keeps the invariant.                               *)
LEMMA AcquireDownloadInv ==
  ASSUME LimiterInv, NEW l \in Leases, NEW c \in Clients,
         AcquireDownload(l, c)
  PROVE  LimiterInv'
<1> DEFINE H == HeldLeases("download")
           byClient == activeDownloadsByClient
<1>1. /\ LimiterTypeOK /\ DownloadAccounting
      /\ ExtractionAccounting /\ ExtractionsCounted /\ WithinLimits
  BY DEF LimiterInv
<1>2. /\ Fresh(l) /\ ~DownloadRefused(c)
      /\ activeDownloads' = activeDownloads + 1
      /\ byClient' = [x \in DOMAIN byClient \cup {c} |->
                        IF x = c THEN DownloadsOf(c) + 1 ELSE byClient[x]]
      /\ HandOut(l, "download", c)
      /\ UNCHANGED activeExtractions
  BY DEF AcquireDownload
<1>3. /\ lease' \in [Leases -> LeaseRecord \cup {NoLease}]
      /\ lease'[l] = [kind |-> "download", client |-> c, released |-> FALSE]
      /\ \A x \in Leases : x # l => lease'[x] = lease[x]
      /\ l \notin H
      /\ H' = H \cup {l}
      /\ HeldLeases("extraction")' = HeldLeases("extraction")
  BY <1>1, <1>2, HandOutHeld
<1>4. l \notin HeldLeases("extraction")
  BY <1>2 DEF HeldLeases, Fresh
<1>5. \A x \in HeldLeases("extraction") : lease'[x] = lease[x]
  BY <1>3, <1>4 DEF HeldLeases
<1>6. /\ ExtractionAccounting'
      /\ ExtractionsCounted'
      /\ Cardinality(HeldLeases("extraction"))' <= MaxExtractions
  BY <1>1, <1>2, <1>3, <1>5, ExtractionsUntouched
<1>7. \A x \in H : x \in Leases /\ x # l /\ lease'[x] = lease[x]
  BY <1>3 DEF HeldLeases
<1>8. lease'[l].client = c
  BY <1>3
<1>9. HeldBy("download", c)' = HeldBy("download", c) \cup {l}
  BY <1>3, <1>7, <1>8 DEF HeldBy
<1>10. l \notin HeldBy("download", c)
  BY <1>3 DEF HeldBy
<1>11. \A d \in Clients \ {c} :
         HeldBy("download", d)' = HeldBy("download", d)
  BY <1>3, <1>7, <1>8 DEF HeldBy
<1>12. /\ Cardinality(H') = Cardinality(H) + 1
       /\ Cardinality(HeldBy("download", c)') =
            Cardinality(HeldBy("download", c)) + 1
  BY <1>3, <1>9, <1>10, HeldFinite, FS_AddElement
<1>13. /\ activeDownloads < MaxDownloads
       /\ DownloadsOf(c) < MaxDownloadsPerClient
  <2>1. activeDownloads \in Nat /\ DownloadsOf(c) \in Nat
    BY <1>1, HeldFinite DEF LimiterTypeOK, DownloadAccounting
  <2> QED
    BY <1>2, <2>1, LimitsAssumption DEF DownloadRefused
<1>14. /\ DOMAIN byClient' = DOMAIN byClient \cup {c}
       /\ byClient'[c] = DownloadsOf(c) + 1
       /\ \A d \in DOMAIN byClient : d # c => byClient'[d] = byClient[d]
  BY <1>2
<1>15. DownloadsOf(c)' = DownloadsOf(c) + 1
  BY <1>14 DEF DownloadsOf
<1>16. \A d \in Clients \ {c} : DownloadsOf(d)' = DownloadsOf(d)
  BY <1>14 DEF DownloadsOf
<1>17. LimiterTypeOK'
  <2>1. DownloadsOf(c) \in Nat
    BY <1>1, HeldFinite DEF DownloadAccounting
  <2>2. byClient' \in [DOMAIN byClient \cup {c} -> Nat \ {0}]
    BY <1>1, <1>2, <2>1 DEF LimiterTypeOK
  <2> QED
    BY <1>1, <1>2, <1>3, <1>14, <2>2 DEF LimiterTypeOK
<1>18. DownloadAccounting'
  <2>1. activeDownloads' = Cardinality(H')
    BY <1>1, <1>2, <1>12 DEF DownloadAccounting
  <2>2. DOMAIN byClient' = {d \in Clients : HeldBy("download", d)' # {}}
    BY <1>1, <1>9, <1>11, <1>14 DEF DownloadAccounting
  <2>3. \A d \in Clients : DownloadsOf(d)' = Cardinality(HeldBy("download", d)')
    BY <1>1, <1>11, <1>12, <1>15, <1>16 DEF DownloadAccounting
  <2> QED
    BY <2>1, <2>2, <2>3 DEF DownloadAccounting
<1>19. Cardinality(H') <= MaxDownloads
  BY <1>1, <1>12, <1>13, HeldFinite, LimitsAssumption DEF DownloadAccounting
<1>20. \A d \in Clients :
         Cardinality(HeldBy("download", d)') <= MaxDownloadsPerClient
  BY <1>1, <1>11, <1>12, <1>13, HeldFinite, LimitsAssumption
     DEF DownloadAccounting, WithinLimits
<1> QED
  BY <1>6, <1>17, <1>18, <1>19, <1>20 DEF LimiterInv, WithinLimits

(* Giving back the slot of a lease that is held keeps the invariant.       *)
LEMMA ReleaseExtractionInv ==
  ASSUME LimiterInv, NEW l \in Leases, Held(l),
         lease[l].kind = "extraction",
         ReleaseExtractionSlot(lease[l].client),
         lease' = [lease EXCEPT ![l].released = TRUE]
  PROVE  LimiterInv'
<1> DEFINE H == HeldLeases("extraction")
           c == lease[l].client
<1>1. /\ LimiterTypeOK /\ DownloadAccounting
      /\ ExtractionAccounting /\ ExtractionsCounted /\ WithinLimits
  BY DEF LimiterInv
<1>2. /\ activeExtractions' = activeExtractions \ {c}
      /\ UNCHANGED <<activeDownloads, activeDownloadsByClient>>
  BY DEF ReleaseExtractionSlot
<1>3. /\ lease' \in [Leases -> LeaseRecord \cup {NoLease}]
      /\ \A x \in Leases : x # l => lease'[x] = lease[x]
      /\ l \in H
      /\ \A k : HeldLeases(k)' = HeldLeases(k) \ {l}
  BY <1>1, ReleaseHeld
<1>4. LimiterTypeOK'
  BY <1>1, <1>2, <1>3 DEF LimiterTypeOK
<1>5. l \notin HeldLeases("download")
  BY DEF HeldLeases
<1>6. /\ HeldLeases("download")' = HeldLeases("download")
      /\ \A x \in HeldLeases("download") : lease'[x] = lease[x]
  BY <1>3, <1>5 DEF HeldLeases
<1>7. /\ DownloadAccounting'
      /\ Cardinality(HeldLeases("download"))' <= MaxDownloads
      /\ \A d \in Clients :
           Cardinality(HeldBy("download", d))' <= MaxDownloadsPerClient
  BY <1>1, <1>2, <1>6, DownloadsUntouched
<1>8. H' = H \ {l} /\ \A x \in H' : lease'[x] = lease[x]
  BY <1>3 DEF HeldLeases
<1>9. \A x \in H : x # l => lease[x].client # c
  BY <1>1, <1>3 DEF ExtractionAccounting
<1>10. ExtractionAccounting'
  <2>1. activeExtractions' = {lease'[x].client : x \in H'}
    BY <1>1, <1>2, <1>8, <1>9 DEF ExtractionAccounting
  <2> QED
    BY <1>1, <1>8, <2>1 DEF ExtractionAccounting
<1>11. c \in activeExtractions
  BY <1>1, <1>3 DEF ExtractionAccounting
<1>12. /\ IsFiniteSet(activeExtractions')
       /\ Cardinality(activeExtractions') = Cardinality(activeExtractions) - 1
       /\ Cardinality(H') = Cardinality(H) - 1
  BY <1>1, <1>2, <1>3, <1>8, <1>11, HeldFinite, FS_RemoveElement
     DEF ExtractionsCounted
<1>13. ExtractionsCounted'
  BY <1>1, <1>12 DEF ExtractionsCounted
<1>14. Cardinality(H') <= MaxExtractions
  BY <1>1, <1>12, HeldFinite, LimitsAssumption DEF WithinLimits
<1> QED
  BY <1>4, <1>7, <1>10, <1>13, <1>14 DEF LimiterInv, WithinLimits

LEMMA ReleaseDownloadInv ==
  ASSUME LimiterInv, NEW l \in Leases, Held(l),
         lease[l].kind = "download",
         ReleaseDownloadSlot(lease[l].client),
         lease' = [lease EXCEPT ![l].released = TRUE]
  PROVE  LimiterInv'
<1> DEFINE H == HeldLeases("download")
           byClient == activeDownloadsByClient
           c == lease[l].client
<1>1. /\ LimiterTypeOK /\ DownloadAccounting
      /\ ExtractionAccounting /\ ExtractionsCounted /\ WithinLimits
  BY DEF LimiterInv
<1>2. /\ lease' \in [Leases -> LeaseRecord \cup {NoLease}]
      /\ lease[l] \in LeaseRecord
      /\ \A x \in Leases : x # l => lease'[x] = lease[x]
      /\ l \in H
      /\ \A k : HeldLeases(k)' = HeldLeases(k) \ {l}
  BY <1>1, ReleaseHeld
<1>3. c \in Clients
  BY <1>2 DEF LeaseRecord
<1>4. l \notin HeldLeases("extraction")
  BY DEF HeldLeases
<1>5. /\ HeldLeases("extraction")' = HeldLeases("extraction")
      /\ \A x \in HeldLeases("extraction") : lease'[x] = lease[x]
  BY <1>2, <1>4 DEF HeldLeases
<1>6. /\ ExtractionAccounting'
      /\ ExtractionsCounted'
      /\ Cardinality(HeldLeases("extraction"))' <= MaxExtractions
  BY <1>1, <1>5, ExtractionsUntouched DEF ReleaseDownloadSlot
<1>7. H' = H \ {l} /\ \A x \in H' : lease'[x] = lease[x]
  BY <1>2 DEF HeldLeases
<1>8. /\ HeldBy("download", c)' = HeldBy("download", c) \ {l}
      /\ l \in HeldBy("download", c)
      /\ \A d \in Clients \ {c} :
           HeldBy("download", d)' = HeldBy("download", d)
  BY <1>2, <1>7 DEF HeldBy
<1>9. /\ Cardinality(H') = Cardinality(H) - 1
      /\ Cardinality(HeldBy("download", c)') =
           Cardinality(HeldBy("download", c)) - 1
  <2>1. Cardinality(H \ {l}) = Cardinality(H) - 1
    BY <1>2, HeldFinite, FS_RemoveElement
  <2>2. Cardinality(HeldBy("download", c) \ {l}) =
          Cardinality(HeldBy("download", c)) - 1
    BY <1>8, HeldFinite, FS_RemoveElement
  <2> QED
    BY <1>7, <1>8, <2>1, <2>2
<1>10. /\ Cardinality(H) \in Nat /\ Cardinality(H') \in Nat
       /\ Cardinality(HeldBy("download", c)) \in Nat
       /\ Cardinality(HeldBy("download", c)') \in Nat
  <2>1. IsFiniteSet(H') /\ IsFiniteSet(HeldBy("download", c)')
    BY <1>7, <1>8, HeldFinite, FS_RemoveElement
  <2> QED
    BY <2>1, HeldFinite, FS_CardinalityType
<1>11. activeDownloads' = Cardinality(H')
  BY <1>1, <1>9, <1>10 DEF DownloadAccounting, ReleaseDownloadSlot
<1>12. DownloadsOf(c) - 1 = Cardinality(HeldBy("download", c)')
  BY <1>1, <1>3, <1>9 DEF DownloadAccounting
<1>13. HeldBy("download", c)' # {} <=> DownloadsOf(c) - 1 > 0
  <2>1. IsFiniteSet(HeldBy("download", c)')
    BY <1>8, HeldFinite, FS_RemoveElement
  <2> QED
    BY <1>10, <1>12, <2>1, FS_EmptySet
<1>14. c \in DOMAIN byClient
  BY <1>1, <1>3, <1>8 DEF DownloadAccounting
<1>15. /\ DOMAIN byClient' = {d \in Clients : HeldBy("download", d)' # {}}
       /\ \A d \in Clients :
            DownloadsOf(d)' = Cardinality(HeldBy("download", d)')
       /\ byClient' \in [DOMAIN byClient' -> Nat \ {0}]
  <2>1. CASE DownloadsOf(c) - 1 > 0
    <3>1. byClient' = [byClient EXCEPT ![c] = DownloadsOf(c) - 1]
      BY <2>1 DEF ReleaseDownloadSlot
    <3>2. /\ DOMAIN byClient' = DOMAIN byClient
          /\ byClient'[c] = DownloadsOf(c) - 1
          /\ \A d \in DOMAIN byClient : d # c => byClient'[d] = byClient[d]
      BY <1>1, <1>14, <3>1 DEF LimiterTypeOK
    <3>3. DOMAIN byClient' = {d \in Clients : HeldBy("download", d)' # {}}
      BY <1>1, <1>8, <1>13, <2>1, <3>2 DEF DownloadAccounting
    <3>4. DownloadsOf(c)' = DownloadsOf(c) - 1
      BY <1>14, <3>2 DEF DownloadsOf
    <3>5. \A d \in Clients \ {c} : DownloadsOf(d)' = DownloadsOf(d)
      BY <3>2 DEF DownloadsOf
    <3>6. \A d \in Clients :
            DownloadsOf(d)' = Cardinality(HeldBy("download", d)')
      BY <1>1, <1>8, <1>12, <3>4, <3>5 DEF DownloadAccounting
    <3>7. byClient' \in [DOMAIN byClient -> Nat \ {0}]
      BY <1>1, <1>10, <1>12, <1>14, <2>1, <3>1 DEF LimiterTypeOK
    <3> QED
      BY <3>2, <3>3, <3>6, <3>7
  <2>2. CASE ~(DownloadsOf(c) - 1 > 0)
    <3>1. byClient' = [x \in DOMAIN byClient \ {c} |-> byClient[x]]
      BY <2>2 DEF ReleaseDownloadSlot
    <3>2. /\ DOMAIN byClient' = DOMAIN byClient \ {c}
          /\ \A d \in DOMAIN byClient : d # c => byClient'[d] = byClient[d]
      BY <3>1
    <3>3. DOMAIN byClient' = {d \in Clients : HeldBy("download", d)' # {}}
      BY <1>1, <1>8, <1>13, <2>2, <3>2 DEF DownloadAccounting
    <3>4. DownloadsOf(c)' = 0
      BY <3>2 DEF DownloadsOf
    <3>5. Cardinality(HeldBy("download", c)') = 0
      BY <1>10, <1>12, <2>2
    <3>6. \A d \in Clients \ {c} : DownloadsOf(d)' = DownloadsOf(d)
      BY <3>2 DEF DownloadsOf
    <3>7. \A d \in Clients :
            DownloadsOf(d)' = Cardinality(HeldBy("download", d)')
      BY <1>1, <1>8, <3>4, <3>5, <3>6 DEF DownloadAccounting
    <3>8. byClient' \in [DOMAIN byClient \ {c} -> Nat \ {0}]
      BY <1>1, <3>1 DEF LimiterTypeOK
    <3> QED
      BY <3>2, <3>3, <3>7, <3>8
  <2> QED
    BY <2>1, <2>2
<1>16. LimiterTypeOK'
  BY <1>1, <1>2, <1>10, <1>11, <1>15 DEF LimiterTypeOK, ReleaseDownloadSlot
<1>17. DownloadAccounting'
  BY <1>11, <1>15 DEF DownloadAccounting
<1>18. Cardinality(H') <= MaxDownloads
  BY <1>1, <1>9, <1>10, LimitsAssumption DEF WithinLimits
<1>19. \A d \in Clients :
         Cardinality(HeldBy("download", d)') <= MaxDownloadsPerClient
  BY <1>1, <1>8, <1>9, <1>10, LimitsAssumption DEF WithinLimits
<1> QED
  BY <1>6, <1>16, <1>17, <1>18, <1>19 DEF LimiterInv, WithinLimits

(* A release, the first or a later one, keeps the invariant.               *)
LEMMA ReleaseInv ==
  ASSUME LimiterInv, NEW l \in Leases, Release(l)
  PROVE  LimiterInv'
<1>1. lease[l] # NoLease
  BY DEF Release
<1>2. CASE lease[l].released
  <2>1. UNCHANGED limiterVars
    BY <1>2 DEF Release
  <2> QED
    BY <2>1 DEF limiterVars, LimiterInv, LimiterTypeOK, DownloadAccounting,
       ExtractionAccounting, ExtractionsCounted, WithinLimits, HeldLeases,
       HeldBy, Held, DownloadsOf
<1>3. CASE ~lease[l].released
  <2>1. /\ Held(l)
        /\ ReleaseSlot(lease[l].kind, lease[l].client)
        /\ lease' = [lease EXCEPT ![l].released = TRUE]
    BY <1>1, <1>3 DEF Release, Held
  <2>2. CASE /\ lease[l].kind = "extraction"
             /\ ReleaseExtractionSlot(lease[l].client)
    BY <2>1, <2>2, ReleaseExtractionInv
  <2>3. CASE /\ lease[l].kind = "download"
             /\ ReleaseDownloadSlot(lease[l].client)
    BY <2>1, <2>3, ReleaseDownloadInv
  <2> QED
    BY <2>1, <2>2, <2>3 DEF ReleaseSlot
<1> QED
  BY <1>2, <1>3

LEMMA StepInv == LimiterInv /\ [LimiterNext]_limiterVars => LimiterInv'
<1> SUFFICES ASSUME LimiterInv, [LimiterNext]_limiterVars
             PROVE  LimiterInv'
  OBVIOUS
<1>1. ASSUME NEW l \in Leases, NEW c \in Clients, AcquireExtraction(l, c)
      PROVE  LimiterInv'
  BY <1>1, AcquireExtractionInv
<1>2. ASSUME NEW l \in Leases, NEW c \in Clients, AcquireDownload(l, c)
      PROVE  LimiterInv'
  BY <1>2, AcquireDownloadInv
<1>3. ASSUME NEW l \in Leases, Release(l)
      PROVE  LimiterInv'
  BY <1>3, ReleaseInv
<1>4. CASE UNCHANGED limiterVars
  BY <1>4 DEF limiterVars, LimiterInv, LimiterTypeOK, DownloadAccounting,
     ExtractionAccounting, ExtractionsCounted, WithinLimits, HeldLeases,
     HeldBy, Held, DownloadsOf
<1> QED
  BY <1>1, <1>2, <1>3, <1>4 DEF LimiterNext

(* The invariant holds in every behaviour of the limiter.                  *)
THEOREM LimiterInvariant == LimiterSpec => []LimiterInv
BY InitInv, StepInv, PTL DEF LimiterSpec

(* Type correctness (limits.py class RequestLimiter).                      *)
THEOREM LimiterTypeCorrect == LimiterSpec => []LimiterTypeOK
<1>1. LimiterInv => LimiterTypeOK
  BY DEF LimiterInv
<1> QED
  BY <1>1, LimiterInvariant, PTL

(* The counters, the dictionary and the set of clients agree with the      *)
(* leases that are held, and these stay within the limits, for any number  *)
(* of clients and leases (limits.py RequestLimiter, Lease).                *)
THEOREM LimiterAccounting == LimiterSpec => []SlotsAccounted
<1>1. LimiterInv => SlotsAccounted
  BY DEF LimiterInv, SlotsAccounted
<1> QED
  BY <1>1, LimiterInvariant, PTL

-----------------------------------------------------------------------------
(* The limiter implements the pool.                                        *)

HolderOf(l) == [lease |-> l, kind |-> lease[l].kind, client |-> lease[l].client]

(* As many holders as leases, of each kind and of each client.             *)
LEMMA HoldersCounted ==
  ASSUME NEW S \in SUBSET Leases
  PROVE  /\ IsFiniteSet({HolderOf(l) : l \in S})
         /\ Cardinality({HolderOf(l) : l \in S}) = Cardinality(S)
<1> DEFINE T == {HolderOf(l) : l \in S}
           f == [l \in S |-> HolderOf(l)]
<1>1. IsFiniteSet(S)
  BY LeasesAssumption, FS_Subset
<1>2. \A x, y \in S : HolderOf(x) = HolderOf(y) => x = y
  BY DEF HolderOf
<1>3. f \in Bijection(S, T)
  <2>1. f \in [S -> T]
    OBVIOUS
  <2>2. \A x, y \in S : f[x] = f[y] => x = y
    BY <1>2
  <2>3. \A t \in T : \E x \in S : f[x] = t
    OBVIOUS
  <2> HIDE DEF f, T
  <2> QED
    BY <2>1, <2>2, <2>3, Fun_IsBij
<1>4. ExistsBijection(S, T)
  BY <1>3 DEF ExistsBijection
<1> HIDE DEF T
<1>5. IsFiniteSet(T) /\ Cardinality(T) = Cardinality(S)
  BY <1>1, <1>4, FS_Bijection
<1> QED
  BY <1>5 DEF T

(* SlotPool counts as RequestLimiter does.                                 *)
LEMMA PoolCounts == \A S : Pool!Cardinality(S) = Cardinality(S)
BY DEF Pool!Cardinality, Cardinality, Pool!IsFiniteSet, IsFiniteSet

(* The pool sees the leases that the limiter holds.                        *)
LEMMA PoolView ==
  /\ Holders = {HolderOf(l) : l \in {x \in Leases : Held(x)}}
  /\ \A k : Pool!Of(k) = {HolderOf(l) : l \in HeldLeases(k)}
  /\ \A k, c : Pool!OfClient(k, c) = {HolderOf(l) : l \in HeldBy(k, c)}
  /\ \A l \in Leases : Pool!IsHeld(l) <=> Held(l)
  /\ \A k : Cardinality(Pool!Of(k)) = Cardinality(HeldLeases(k))
  /\ \A k, c : Cardinality(Pool!OfClient(k, c)) = Cardinality(HeldBy(k, c))
<1>1. Holders = {HolderOf(l) : l \in {x \in Leases : Held(x)}}
  BY DEF Holders, HolderOf
<1>2. ASSUME NEW k PROVE Pool!Of(k) = {HolderOf(l) : l \in HeldLeases(k)}
  BY <1>1 DEF Pool!Of, HeldLeases, HolderOf
<1>3. ASSUME NEW k, NEW c
      PROVE  Pool!OfClient(k, c) = {HolderOf(l) : l \in HeldBy(k, c)}
  BY <1>2 DEF Pool!OfClient, HeldBy, HolderOf
<1>4. ASSUME NEW l \in Leases PROVE Pool!IsHeld(l) <=> Held(l)
  <2>1. \A x : HolderOf(x).lease = x
    BY DEF HolderOf
  <2> QED
    BY <1>1, <2>1, Zenon DEF Pool!IsHeld
<1>5. ASSUME NEW k PROVE HeldLeases(k) \in SUBSET Leases
  BY DEF HeldLeases
<1>6. ASSUME NEW k, NEW c PROVE HeldBy(k, c) \in SUBSET Leases
  BY DEF HeldBy, HeldLeases
<1>7. ASSUME NEW k PROVE Cardinality(Pool!Of(k)) = Cardinality(HeldLeases(k))
  BY <1>2, <1>5, HoldersCounted
<1>8. ASSUME NEW k, NEW c
      PROVE  Cardinality(Pool!OfClient(k, c)) = Cardinality(HeldBy(k, c))
  BY <1>3, <1>6, HoldersCounted
<1> QED
  BY <1>1, <1>2, <1>3, <1>4, <1>7, <1>8

(* A lease handed out joins the holders.                                   *)
LEMMA HandOutHolders ==
  ASSUME LimiterTypeOK,
         NEW l \in Leases, NEW k \in Kinds, NEW c \in Clients,
         Fresh(l), HandOut(l, k, c)
  PROVE  Holders' = Holders \cup {[lease |-> l, kind |-> k, client |-> c]}
<1>1. /\ lease'[l] = [kind |-> k, client |-> c, released |-> FALSE]
      /\ \A x \in Leases : x # l => lease'[x] = lease[x]
  BY HandOutHeld
<1>2. /\ Held(l)' /\ ~Held(l)
      /\ \A x \in Leases : x # l => (Held(x)' <=> Held(x))
  BY <1>1 DEF Held, Fresh, NoLease
<1>3. lease'[l].kind = k /\ lease'[l].client = c
  BY <1>1
<1> QED
  BY <1>1, <1>2, <1>3 DEF Holders

(* The first release of a lease takes it from the holders, a later one     *)
(* changes nothing.                                                        *)
LEMMA ReleaseHolders ==
  ASSUME LimiterTypeOK, NEW l \in Leases, Release(l)
  PROVE  Pool!Return(l) \/ UNCHANGED Holders
<1>1. CASE lease[l].released
  BY <1>1 DEF Release, limiterVars, Holders, Held
<1>2. CASE ~lease[l].released
  <2>1. Held(l) /\ lease' = [lease EXCEPT ![l].released = TRUE]
    BY <1>2 DEF Release, Held
  <2>2. /\ \A x \in Leases : x # l => lease'[x] = lease[x]
        /\ \A k : HeldLeases(k)' = HeldLeases(k) \ {l}
        /\ lease'[l].kind = lease[l].kind
    BY <2>1, ReleaseHeld
  <2>3. ~Held(l)'
    BY <2>2 DEF HeldLeases
  <2>4. \A x \in Leases : x # l => (Held(x)' <=> Held(x))
    BY <2>2 DEF Held
  <2>5. Holders' = {h \in Holders : h.lease # l}
    BY <2>2, <2>3, <2>4 DEF Holders
  <2> QED
    BY <2>1, <2>5, PoolView DEF Pool!Return
<1> QED
  BY <1>1, <1>2

(* The limiter, whose guards count, implements the pool, whose guards are  *)
(* about the leases that are held (limits.py class RequestLimiter).        *)
THEOREM LimiterImplementsPool == LimiterSpec => ImplementsPool
<1>1. LimiterInit => Pool!PoolInit
  BY DEF LimiterInit, Pool!PoolInit, Holders, Held
<1>2. LimiterInv /\ [LimiterNext]_limiterVars => [Pool!PoolNext]_Holders
  <2> SUFFICES ASSUME LimiterInv, [LimiterNext]_limiterVars
               PROVE  Pool!PoolNext \/ UNCHANGED Holders
    OBVIOUS
  <2>1. /\ LimiterTypeOK /\ DownloadAccounting
        /\ ExtractionAccounting /\ ExtractionsCounted
    BY DEF LimiterInv
  <2>2. ASSUME NEW l \in Leases, NEW c \in Clients, AcquireExtraction(l, c)
        PROVE  Pool!Take(l, "extraction", c)
    <3>1. Fresh(l) /\ ~ExtractionRefused(c) /\ HandOut(l, "extraction", c)
      BY <2>2 DEF AcquireExtraction
    <3>2. HeldBy("extraction", c) = {}
      BY <2>1, <3>1 DEF ExtractionAccounting, ExtractionRefused, HeldBy
    <3>3. Pool!OfClient("extraction", c) = {}
      BY <3>2, PoolView
    <3>4. Cardinality(Pool!Of("extraction")) < MaxExtractions
      BY <2>1, <3>1, PoolView, HeldFinite, LimitsAssumption
         DEF ExtractionsCounted, ExtractionRefused
    <3>5. Pool!Room("extraction", c)
      BY <3>3, <3>4, PoolCounts DEF Pool!Room
    <3>6. Holders' =
            Holders \cup {[lease |-> l, kind |-> "extraction", client |-> c]}
      BY <2>1, <3>1, HandOutHolders
    <3> QED
      BY <3>1, <3>5, <3>6, PoolView DEF Pool!Take, Fresh
  <2>3. ASSUME NEW l \in Leases, NEW c \in Clients, AcquireDownload(l, c)
        PROVE  Pool!Take(l, "download", c)
    <3>1. Fresh(l) /\ ~DownloadRefused(c) /\ HandOut(l, "download", c)
      BY <2>3 DEF AcquireDownload
    <3>2. /\ Cardinality(Pool!Of("download")) < MaxDownloads
          /\ Cardinality(Pool!OfClient("download", c)) < MaxDownloadsPerClient
      BY <2>1, <3>1, PoolView, HeldFinite, LimitsAssumption
         DEF DownloadAccounting, DownloadRefused
    <3>3. Pool!Room("download", c)
      BY <3>2, PoolCounts DEF Pool!Room
    <3>4. Holders' =
            Holders \cup {[lease |-> l, kind |-> "download", client |-> c]}
      BY <2>1, <3>1, HandOutHolders
    <3> QED
      BY <3>1, <3>3, <3>4, PoolView DEF Pool!Take, Fresh
  <2>4. ASSUME NEW l \in Leases, Release(l)
        PROVE  Pool!PoolNext \/ UNCHANGED Holders
    BY <2>1, <2>4, ReleaseHolders DEF Pool!PoolNext
  <2>5. CASE UNCHANGED limiterVars
    BY <2>5 DEF limiterVars, Holders, Held
  <2> QED
    BY <2>2, <2>3, <2>4, <2>5 DEF LimiterNext, Pool!PoolNext
<1> QED
  BY <1>1, <1>2, LimiterInvariant, PTL DEF LimiterSpec, ImplementsPool, Pool!PoolSpec
=============================================================================
