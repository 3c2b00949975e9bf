--------------------------- MODULE PublishProofs ---------------------------
(* Theorems about Publish, for every number of remuxes, targets and kept names. *)
EXTENDS Publish, TLAPS

----------------------------------------------------------------------------
(* The inductive invariant: what holds of each remux by where it is, and of the
   files at the targets and at the kept names.                              *)

\* A remux at work holds its target's lock, and so it does while its guards have
\* a file left to remove: no two of one target are ever at work together.
Works(p) == pc[p] \in Holding \ {"unwind"} \/ armed[p] # {}
LockOK(p) == Works(p) => lock[job[p].target] = p

\* The guards are for the remux's own partial files.
ArmedOK(p) ==
    /\ armed[p] \subseteq {MuxName(p), Landing(p)}
    /\ pc[p] \notin Holding \ {"clear"} => armed[p] = {}
    /\ pc[p] = "mux" => MuxName(p) \in armed[p]

ReportOK(p) ==
    /\ said[p] = "done" <=> p \in landed
    /\ pc[p] \notin Ends \cup {"unwind"} => said[p] = "none"
    /\ p \in hung => pc[p] \in Workers
    /\ p \in before => pc[p] \in Ends

Copying == {"copy", "copysync", "copyverify"}
Checked == {"recheck", "commit", "land", "keep"} \cup Keeping

\* Whose file is at the names a remux works on.
OwnOK(p) ==
    /\ pc[p] = "mux" => dir[MuxName(p)] \in {NoFile, Muxed(p)}
    /\ pc[p] \in {"sync", "verify"} => dir[MuxName(p)] = Muxed(p)
    /\ pc[p] \in {"copyclear"} \cup Copying => job[p].staged
    /\ pc[p] \in Copying => dir[Landing(p)] = Copied(p)
    /\ pc[p] \in Checked => dir[Landing(p)] = LandingFile(p)

\* A partial file of a remux that lives, or returned with the power on, has a
\* guard; one that has yet to begin has left none for a power loss to bring back.
GuardedOK(p) ==
    /\ pc[p] # "dead" /\ p \notin before =>
          \A n \in {Stage(p), Landing(p)} : dir[n] \in {Muxed(p), Copied(p)} => n \in armed[p]
    /\ pc[p] = "start" =>
          \A n \in {Stage(p), Landing(p)} : left[n] \cap {Muxed(p), Copied(p)} = {}

\* What was checked of the bytes: they are synced before they are verified.
BytesOK(p) ==
    /\ pc[p] = "verify" => Muxed(p) \in synced
    /\ pc[p] = "copyverify" => Copied(p) \in synced
    /\ pc[p] \in Checked \/ said[p] = "kept" => LandingFile(p) \in whole \cap synced

Local(p) == LockOK(p) /\ ArmedOK(p) /\ ReportOK(p) /\ OwnOK(p) /\ GuardedOK(p) /\ BytesOK(p)

TypeInv == TypeOK /\ \A t \in Targets : lock[t] # NoOne => job[lock[t]].target = t

\* What may be at a target, and may come back there.  Another program's file is
\* all that a power loss leaves under its name.
Landable == Foreign \cup {LandingFile(p) : p \in Remuxes}
TargetInv ==
    /\ Foreign \subseteq whole \cap synced
    /\ TargetWhole
    /\ \A t \in Targets : {dir[Target(t)]} \cup left[Target(t)] \subseteq Landable \cup {NoFile}
    /\ \A n \in Public : dir[n] \in Foreign => left[n] \subseteq {dir[n]}

\* A kept name is one remux's from its placeholder on, until the power fails.
Claims(p) == pc[p] \in Keeping \/ (said[p] = "kept" /\ p \notin before)
KeptFile(p) == IF pc[p] \in Keeping THEN Placeholder(p) ELSE LandingFile(p)
KeptInv ==
    \A p \in Remuxes : Claims(p) =>
        /\ tries[p] <= Shorts
        /\ dir[KeptName(p)] \in {KeptFile(p)} \cup Foreign
        /\ \A q \in Remuxes \ {p} : Claims(q) => KeptName(q) # KeptName(p)

\* Another program's file that a remux may take for its placeholder, or is about
\* to remove, came while it could not be told from it.
Alike(file) == file \in Foreign /\ Empty(file)
CaughtInv ==
    \A p \in Remuxes \ caught :
        /\ pc[p] = "reserved" => ~Alike(dir[KeptName(p)])
        /\ pc[p] \in {"keeping", "unkeep"} => ~Alike(ours[p])
        /\ pc[p] = "removing" => dir[KeptName(p)] \notin Foreign

IInv == TypeInv /\ (\A p \in Remuxes : Local(p)) /\ TargetInv /\ KeptInv /\ CaughtInv

----------------------------------------------------------------------------
(* Names and files are told apart. *)

LEMMA KeptNameIs ==
    ASSUME NEW t, NEW n \in 1..Shorts + 1
    PROVE  KeptNames(t)[n] = IF n = 1 THEN <<t, "verified">> ELSE <<n - 1, "short">>
<1> DEFINE shorts == [k \in 1..Shorts |-> <<k, "short">>]
           some == {<<t, "verified">>} \cup {<<k, "short">> : k \in 1..Shorts}
<1>1. <<<<t, "verified">>>> \in Seq(some) /\ Len(<<<<t, "verified">>>>) = 1
  OBVIOUS
<1>2. shorts \in Seq(some) /\ Len(shorts) = Shorts
  <2>1. shorts \in [1..Shorts -> some]
    OBVIOUS
  <2> QED BY <2>1, ShortsAssumption
<1>3. KeptNames(t) = <<<<t, "verified">>>> \o shorts
  BY DEF KeptNames
<1>4. (<<<<t, "verified">>>> \o shorts)[n] = IF n <= 1 THEN <<<<t, "verified">>>>[n] ELSE shorts[n - 1]
  <2> HIDE DEF shorts, some
  <2> QED BY <1>1, <1>2, ShortsAssumption
<1> QED BY <1>3, <1>4, ShortsAssumption

LEMMA KeptTags ==
    ASSUME NEW t, NEW n \in Kept(t)
    PROVE  n[2] \in {"verified", "short"}
<1>1. PICK k \in 1..Shorts + 1 : n = KeptNames(t)[k]
  BY DEF Kept
<1>2. n = IF k = 1 THEN <<t, "verified">> ELSE <<k - 1, "short">>
  BY <1>1, KeptNameIs
<1> QED BY <1>2

\* A name is of one kind, and of one target or one remux.
LEMMA NameFacts ==
    /\ \A t, u : Target(t) = Target(u) => t = u
    /\ \A t, u : Beside(t) = Beside(u) => t = u
    /\ \A p, q : Stage(p) = Stage(q) => p = q
    /\ \A t, u : Target(t) # Beside(u) /\ Target(t) # Stage(u) /\ Beside(t) # Stage(u)
    /\ \A t, u, n : n \in Kept(t) => n # Target(u) /\ n # Beside(u) /\ n # Stage(u)
<1>1. \A t, u, n : n \in Kept(t) => n # Target(u) /\ n # Beside(u) /\ n # Stage(u)
  BY KeptTags DEF Target, Beside, Stage
<1> QED BY <1>1 DEF Target, Beside, Stage

LEMMA NamesIn ==
    /\ \A t \in Targets : Target(t) \in Names /\ Target(t) \in Public /\ Beside(t) \in Names
    /\ \A p \in Remuxes : Stage(p) \in Names
    /\ \A t \in Targets : \A n \in Kept(t) : n \in Names /\ n \in Public
    /\ Public \subseteq Names
    /\ \A n \in Public : (\E t \in Targets : n = Target(t)) \/ (\E t \in Targets : n \in Kept(t))
  BY DEF Names, Public

\* A file is of one kind, of one remux, or another program's, and never no file.
LEMMA FileFacts ==
    /\ \A p, q : Muxed(p) = Muxed(q) => p = q
    /\ \A p, q : Copied(p) = Copied(q) => p = q
    /\ \A p, q : Placeholder(p) = Placeholder(q) => p = q
    /\ \A p, q : Muxed(p) # Copied(q) /\ Muxed(p) # Placeholder(q) /\ Copied(p) # Placeholder(q)
    /\ \A p : Muxed(p) \notin Foreign /\ Copied(p) \notin Foreign /\ Placeholder(p) \notin Foreign
    /\ NoFile \notin Foreign
    /\ \A p \in Remuxes : /\ Muxed(p) # NoFile /\ Copied(p) # NoFile /\ Placeholder(p) # NoFile
                          /\ {Muxed(p), Copied(p), Placeholder(p)} \subseteq Files
    /\ Foreign \subseteq Files /\ Strange \subseteq Foreign
    /\ \A t \in Targets : <<t, "before">> \in Foreign
<1>1. /\ \A p, q : Muxed(p) # Copied(q) /\ Muxed(p) # Placeholder(q) /\ Copied(p) # Placeholder(q)
      /\ \A p, q : /\ Muxed(p) = Muxed(q) => p = q
                   /\ Copied(p) = Copied(q) => p = q
                   /\ Placeholder(p) = Placeholder(q) => p = q
  BY DEF Muxed, Copied, Placeholder
<1>2. \A p : Muxed(p) \notin Foreign /\ Copied(p) \notin Foreign /\ Placeholder(p) \notin Foreign
  BY DEF Muxed, Copied, Placeholder, Foreign, Strange
<1>3. /\ \A p \in Remuxes : {Muxed(p), Copied(p), Placeholder(p)} \subseteq Files
      /\ Foreign \subseteq Files /\ Strange \subseteq Foreign
      /\ \A t \in Targets : <<t, "before">> \in Foreign
  BY DEF Files, Foreign
<1>4. NoFile \notin Foreign /\ \A p \in Remuxes : NoFile \notin {Muxed(p), Copied(p), Placeholder(p)}
  BY <1>3, NoFileAssumption
<1> QED BY <1>1, <1>2, <1>3, <1>4

\* What a remux works on, by its job.
LEMMA Own ==
    ASSUME TypeOK, NEW p \in Remuxes
    PROVE  /\ job[p] \in Jobs /\ job[p].target \in Targets
           /\ T(p) = Target(job[p].target) /\ Landing(p) = Beside(job[p].target)
           /\ MuxName(p) \in {Stage(p), Landing(p)}
           /\ LandingFile(p) \in {Muxed(p), Copied(p)}
           /\ IF job[p].staged THEN MuxName(p) = Stage(p) /\ LandingFile(p) = Copied(p)
                               ELSE MuxName(p) = Landing(p) /\ LandingFile(p) = Muxed(p)
           /\ {T(p), Landing(p), Stage(p), MuxName(p)} \subseteq Names
           /\ LandingFile(p) \in Files /\ LandingFile(p) # NoFile /\ LandingFile(p) \notin Foreign
<1>1. job[p] \in Jobs /\ job[p].target \in Targets
  BY DEF TypeOK, Jobs
<1> QED BY <1>1, NamesIn, FileFacts DEF T, Landing, MuxName, LandingFile

LEMMA OwnKept ==
    ASSUME TypeOK, NEW p \in Remuxes, tries[p] <= Shorts
    PROVE  /\ KeptName(p) \in Kept(job[p].target) /\ KeptName(p) \in Names /\ KeptName(p) \in Public
           /\ \A q : KeptName(p) # Target(q) /\ KeptName(p) # Beside(q) /\ KeptName(p) # Stage(q)
<1>1. tries[p] + 1 \in 1..Shorts + 1
  BY ShortsAssumption DEF TypeOK
<1>2. KeptName(p) \in Kept(job[p].target)
  BY <1>1 DEF KeptName, Kept
<1> QED BY <1>2, Own, NamesIn, NameFacts

\* No step changes what a remux was asked for, nor so what it works on.
LEMMA SameJobs ==
    ASSUME UNCHANGED job, NEW p \in Remuxes
    PROVE  /\ T(p)' = T(p) /\ Landing(p)' = Landing(p) /\ MuxName(p)' = MuxName(p)
           /\ LandingFile(p)' = LandingFile(p)
           /\ UNCHANGED tries => KeptName(p)' = KeptName(p)
  BY DEF T, Landing, MuxName, LandingFile, KeptName

----------------------------------------------------------------------------
(* What a step of one remux leaves to the others. *)

Frame(q) ==
    /\ UNCHANGED <<job, before>> /\ caught \subseteq caught'
    /\ \A p \in Remuxes \ {q} : /\ pc'[p] = pc[p] /\ said'[p] = said[p] /\ ours'[p] = ours[p]
                                /\ armed'[p] = armed[p] /\ tries'[p] = tries[p]
                                /\ p \in landed' <=> p \in landed
                                /\ p \in hung' => p \in hung
    /\ \A t \in Targets : lock[t] \notin {q, NoOne} => lock'[t] = lock[t]
    /\ \A n \in Names : dir'[n] # dir[n] =>
          \/ n \in Public \cup {Stage(q)}
          \/ n = Landing(q) /\ Works(q) /\ dir'[n] \in {NoFile, Muxed(q), Copied(q)}
    /\ \A n \in Names : left'[n] \subseteq left[n] \cup {dir'[n]}
    /\ whole \cap Landable \subseteq whole' /\ synced \subseteq synced'

\* Public names are not where remuxes work.
LEMMA PublicApart ==
    ASSUME NEW n \in Public
    PROVE  \A t : n # Beside(t) /\ n # Stage(t)
<1>1. CASE \E t \in Targets : n = Target(t)
  BY <1>1, NameFacts
<1>2. CASE \E t \in Targets : n \in Kept(t)
  BY <1>2, NameFacts
<1> QED BY <1>1, <1>2, NamesIn

\* Two remuxes at work have different targets.
LEMMA OneWorks ==
    ASSUME IInv, NEW p \in Remuxes, NEW q \in Remuxes, p # q, Works(p), Works(q)
    PROVE  Landing(p) # Landing(q)
<1>1. lock[job[p].target] = p /\ lock[job[q].target] = q
  BY DEF IInv, Local, LockOK
<1>2. job[p].target # job[q].target
  BY <1>1
<1> QED BY <1>2, NameFacts DEF Landing

LEMMA FrameKeeps ==
    ASSUME IInv, NEW q \in Remuxes, Frame(q), NEW p \in Remuxes, p # q
    PROVE  Local(p)'
<1>0. TypeOK /\ TypeInv /\ LockOK(p) /\ ArmedOK(p) /\ ReportOK(p) /\ OwnOK(p) /\ GuardedOK(p) /\ BytesOK(p)
  BY DEF IInv, Local, TypeInv
<1>1. /\ UNCHANGED job /\ UNCHANGED before
      /\ pc'[p] = pc[p] /\ said'[p] = said[p] /\ armed'[p] = armed[p] /\ tries'[p] = tries[p]
      /\ p \in landed' <=> p \in landed
      /\ p \in hung' => p \in hung
      /\ synced \subseteq synced' /\ whole \cap Landable \subseteq whole'
  BY DEF Frame
<1>2. T(p)' = T(p) /\ Landing(p)' = Landing(p) /\ MuxName(p)' = MuxName(p) /\ LandingFile(p)' = LandingFile(p)
  BY <1>1, SameJobs
<1>3. dir'[Stage(p)] = dir[Stage(p)]
  <2>1. Stage(p) \in Names /\ Stage(p) \notin Public /\ Stage(p) # Stage(q) /\ Stage(p) # Landing(q)
    BY <1>0, NamesIn, NameFacts, PublicApart DEF Landing
  <2> QED BY <2>1 DEF Frame
<1>4. /\ Landing(p) \in Names /\ Landing(p) \notin Public /\ Landing(p) # Stage(q)
      /\ dir'[Landing(p)] # dir[Landing(p)] =>
            Landing(p) = Landing(q) /\ Works(q) /\ dir'[Landing(p)] \in {NoFile, Muxed(q), Copied(q)}
  <2>1. Landing(p) \in Names /\ Landing(p) \notin Public /\ Landing(p) # Stage(q)
    BY <1>0, Own, NameFacts, PublicApart DEF Landing
  <2> QED BY <2>1 DEF Frame
<1>5. Works(p) => dir'[Landing(p)] = dir[Landing(p)]
  BY <1>4, OneWorks
<1>6. dir'[Landing(p)] \in {Muxed(p), Copied(p)} => dir'[Landing(p)] = dir[Landing(p)]
  BY <1>4, FileFacts
<1>7. Works(p) <=> Works(p)'
  BY <1>1 DEF Works
<1>8. LockOK(p)'
  <2>1. job[p].target \in Targets /\ p # NoOne
    BY <1>0, Own, NoOneAssumption
  <2> QED BY <1>0, <1>1, <1>7, <2>1 DEF LockOK, Frame
<1>9. ArmedOK(p)'
  BY <1>0, <1>1, <1>2 DEF ArmedOK
<1>10. ReportOK(p)'
  BY <1>0, <1>1 DEF ReportOK
<1>11. OwnOK(p)'
  <2>1. MuxName(p) \in {Stage(p), Landing(p)}
    BY <1>0, Own
  <2>2. pc[p] \in {"mux", "sync", "verify"} \cup Copying \cup Checked => Works(p)
    BY DEF Works, Holding, Workers, Copying, Checked, Keeping
  <2>3. pc[p] \in {"mux", "sync", "verify"} \cup Copying \cup Checked =>
           dir'[Landing(p)] = dir[Landing(p)] /\ dir'[MuxName(p)] = dir[MuxName(p)]
    BY <1>3, <1>5, <2>1, <2>2
  <2> QED BY <1>0, <1>1, <1>2, <2>3 DEF OwnOK
<1>12. GuardedOK(p)'
  <2>1. pc'[p] # "dead" /\ p \notin before' =>
           \A n \in {Stage(p), Landing(p)} : dir'[n] \in {Muxed(p), Copied(p)} => n \in armed'[p]
    BY <1>0, <1>1, <1>3, <1>6 DEF GuardedOK
  <2>2. ASSUME pc[p] = "start", NEW n \in {Stage(p), Landing(p)}
        PROVE  left'[n] \cap {Muxed(p), Copied(p)} = {}
    <3>1. n \in Names /\ left[n] \cap {Muxed(p), Copied(p)} = {}
      BY <1>0, <1>4, <2>2, NamesIn DEF GuardedOK
    <3>2. dir[n] \notin {Muxed(p), Copied(p)}
      BY <1>0, <2>2 DEF GuardedOK, ArmedOK, ReportOK, Holding, Workers, Keeping, Ends
    <3>3. dir'[n] \notin {Muxed(p), Copied(p)}
      BY <1>3, <1>6, <2>2, <3>2
    <3> QED BY <3>1, <3>3 DEF Frame
  <2> QED BY <1>1, <1>2, <2>1, <2>2 DEF GuardedOK, Muxed, Copied, Stage
<1>13. BytesOK(p)'
  <2>1. LandingFile(p) \in Landable
    BY DEF Landable
  <2> QED BY <1>0, <1>1, <1>2, <2>1 DEF BytesOK
<1> QED BY <1>8, <1>9, <1>10, <1>11, <1>12, <1>13 DEF Local

\* A step that leaves the targets alone leaves them as they should be.
LEMMA TargetsStay ==
    ASSUME IInv, UNCHANGED job,
           \A t \in Targets : dir'[Target(t)] = dir[Target(t)],
           \A n \in Public : /\ left'[n] \subseteq left[n] \cup {dir'[n]}
                             /\ dir'[n] \in Foreign => dir'[n] = dir[n],
           whole \cap Landable \subseteq whole', synced \subseteq synced'
    PROVE  TargetInv'
<1>1. Landable' = Landable
  BY SameJobs DEF Landable
<1>2. Foreign \subseteq Landable /\ NoFile \notin Foreign
  BY FileFacts DEF Landable
<1>3. TargetInv
  BY DEF IInv
<1>4. (Foreign \subseteq whole \cap synced)'
  BY <1>2, <1>3 DEF TargetInv, Foreign
<1>5. \A t \in Targets :
         {dir'[Target(t)]} \cup left'[Target(t)] \subseteq {dir[Target(t)]} \cup left[Target(t)]
  BY NamesIn
<1>6. TargetWhole'
  <2>1. ASSUME NEW t \in Targets, NEW f \in {dir'[Target(t)]} \cup left'[Target(t)]
        PROVE  f \in (whole' \cap synced') \cup {NoFile}
    <3>1. f \in {dir[Target(t)]} \cup left[Target(t)]
      BY <1>5
    <3>2. f \in Landable \cup {NoFile} /\ f \in (whole \cap synced) \cup {NoFile}
      BY <1>3, <3>1 DEF TargetInv, TargetWhole
    <3> QED BY <3>2
  <2>2. \A t \in Targets :
           {dir'[Target(t)]} \cup left'[Target(t)] \subseteq (whole' \cap synced') \cup {NoFile}
    BY <2>1
  <2> QED BY <2>2 DEF TargetWhole
<1>7. \A t \in Targets : {dir'[Target(t)]} \cup left'[Target(t)] \subseteq Landable \cup {NoFile}
  BY <1>3, <1>5 DEF TargetInv
<1>8. \A n \in Public : dir'[n] \in Foreign => left'[n] \subseteq {dir'[n]}
  BY <1>3 DEF TargetInv
<1> QED BY <1>1, <1>4, <1>6, <1>7, <1>8 DEF TargetInv, Target, Foreign, Public, Kept, KeptNames

LEMMA TargetsKept ==
    ASSUME IInv, UNCHANGED job,
           \A n \in Public : dir'[n] = dir[n] /\ left'[n] \subseteq left[n] \cup {dir'[n]},
           whole \cap Landable \subseteq whole', synced \subseteq synced'
    PROVE  TargetInv'
  BY TargetsStay, NamesIn

\* What is kept stays, or is another program's, if no remux claims a name.
LEMMA ClaimsStay ==
    ASSUME IInv, UNCHANGED job,
           \A p \in Remuxes : Claims(p)' =>
              /\ Claims(p) /\ tries'[p] = tries[p] /\ KeptFile(p)' = KeptFile(p)
              /\ dir'[KeptName(p)] \in {dir[KeptName(p)]} \cup Foreign
    PROVE  KeptInv'
<1>1. \A p \in Remuxes : Claims(p)' => KeptName(p)' = KeptName(p)
  BY DEF KeptName
<1> QED BY <1>1 DEF IInv, KeptInv, Foreign

\* Nothing comes into the hands of a remux that sees no change of its kept name.
LEMMA CaughtStay ==
    ASSUME IInv, UNCHANGED job, caught \subseteq caught',
           \A p \in Remuxes : pc'[p] \in Keeping =>
              /\ pc'[p] = pc[p] /\ tries'[p] = tries[p] /\ ours'[p] = ours[p]
              /\ dir'[KeptName(p)] = dir[KeptName(p)]
    PROVE  CaughtInv'
<1>1. \A p \in Remuxes : pc'[p] \in Keeping => KeptName(p)' = KeptName(p)
  BY DEF KeptName
<1>2. ASSUME NEW p \in Remuxes, p \notin caught', pc'[p] \in Keeping
      PROVE  /\ pc'[p] = "reserved" => ~Alike(dir'[KeptName(p)])
             /\ pc'[p] \in {"keeping", "unkeep"} => ~Alike(ours'[p])
             /\ pc'[p] = "removing" => dir'[KeptName(p)] \notin Foreign
  BY <1>2 DEF IInv, CaughtInv
<1> QED BY <1>1, <1>2 DEF CaughtInv, Keeping, Alike, Empty, Foreign

LEMMA ClaimsKept ==
    ASSUME IInv, UNCHANGED job, caught \subseteq caught', \A n \in Public : dir'[n] = dir[n],
           \A p \in Remuxes : Claims(p)' =>
              Claims(p) /\ tries'[p] = tries[p] /\ KeptFile(p)' = KeptFile(p),
           \A p \in Remuxes : pc'[p] \in Keeping =>
              pc'[p] = pc[p] /\ tries'[p] = tries[p] /\ ours'[p] = ours[p]
    PROVE  KeptInv' /\ CaughtInv'
<1>1. \A p \in Remuxes : Claims(p) => dir'[KeptName(p)] = dir[KeptName(p)]
  BY OwnKept DEF IInv, KeptInv, TypeInv
<1>2. \A p \in Remuxes : pc'[p] \in Keeping => Claims(p)
  BY DEF Claims
<1> QED BY <1>1, <1>2, ClaimsStay, CaughtStay

\* What a remux works on is what it was, when the folder is.
LEMMA FrameQuiet ==
    ASSUME NEW q \in Remuxes, UNCHANGED <<job, landed, dir, left, lock, caught, before>>,
           \A p \in Remuxes \ {q} : /\ pc'[p] = pc[p] /\ said'[p] = said[p] /\ ours'[p] = ours[p]
                                    /\ armed'[p] = armed[p] /\ tries'[p] = tries[p]
                                    /\ p \in hung' => p \in hung,
           whole \cap Landable \subseteq whole', synced \subseteq synced'
    PROVE  Frame(q)
  BY DEF Frame

\* A step that goes on and leaves the names alone.
LEMMA OnwardInv ==
    ASSUME IInv, NEW q \in Remuxes, NEW label \in Labels, Goto(q, label), Stay,
           UNCHANGED <<job, landed, folder, lock, world>>,
           pc[q] \notin Ends \cup {"unwind", "clear"} \cup Keeping, q \notin hung,
           label \notin Ends \cup {"unwind", "clear", "mux", "start"} \cup Keeping,
           pc[q] \in Holding <=> label \in Holding,
           whole \subseteq whole', whole' \subseteq Files,
           synced \subseteq synced', synced' \subseteq Files,
           OwnOK(q)', BytesOK(q)'
    PROVE  IInv'
<1>0. TypeInv /\ TypeOK /\ LockOK(q) /\ ArmedOK(q) /\ ReportOK(q) /\ GuardedOK(q)
  BY DEF IInv, Local, TypeInv
<1>1. /\ UNCHANGED <<job, landed, dir, left, lock, stopped, hung, foreign, said, armed, tries>>
      /\ UNCHANGED <<caught, before, ours>>
  BY DEF folder, world, Stay
<1>2. pc'[q] = label /\ \A p \in Remuxes \ {q} : pc'[p] = pc[p]
  BY <1>0 DEF Goto, TypeOK
<1>3. T(q)' = T(q) /\ Landing(q)' = Landing(q) /\ MuxName(q)' = MuxName(q) /\ LandingFile(q)' = LandingFile(q)
  BY <1>1, SameJobs
<1>4. TypeInv'
  <2>1. pc' \in [Remuxes -> Labels]
    BY <1>0 DEF Goto, TypeOK
  <2>2. \A t \in Targets : lock[t] # NoOne => pc'[lock[t]] \in Holding
    BY <1>0, <1>2 DEF TypeOK
  <2> QED BY <1>0, <1>1, <2>1, <2>2 DEF TypeInv, TypeOK
<1>5. Local(q)'
  <2>1. LockOK(q)'
    BY <1>0, <1>1, <1>2 DEF LockOK, Works, ArmedOK, Ends
  <2>2. ArmedOK(q)'
    BY <1>0, <1>1, <1>2, <1>3 DEF ArmedOK
  <2>3. ReportOK(q)'
    BY <1>0, <1>1, <1>2 DEF ReportOK
  <2>4. GuardedOK(q)'
    BY <1>0, <1>1, <1>2, <1>3 DEF GuardedOK, Ends, Stage, Muxed, Copied
  <2> QED BY <2>1, <2>2, <2>3, <2>4 DEF Local
<1>6. Frame(q)
  BY <1>1, <1>2, FrameQuiet
<1>7. \A p \in Remuxes : Local(p)'
  BY <1>5, <1>6, FrameKeeps
<1>8. TargetInv'
  BY <1>1, TargetsKept
<1>9. KeptInv' /\ CaughtInv'
  <2>1. \A p \in Remuxes : LandingFile(p)' = LandingFile(p)
    BY <1>1, SameJobs
  <2>2. \A p \in Remuxes : Claims(p)' =>
           Claims(p) /\ tries'[p] = tries[p] /\ KeptFile(p)' = KeptFile(p)
    BY <1>1, <1>2, <2>1 DEF Claims, KeptFile, Placeholder
  <2>3. \A p \in Remuxes : pc'[p] \in Keeping =>
           pc'[p] = pc[p] /\ tries'[p] = tries[p] /\ ours'[p] = ours[p]
    BY <1>1, <1>2
  <2> QED BY <1>1, <2>2, <2>3, ClaimsKept
<1> QED BY <1>4, <1>7, <1>8, <1>9 DEF IInv

\* A step that returns without having renamed or kept its file.
LEMMA ReturnInv ==
    ASSUME IInv, NEW q \in Remuxes, NEW what \in {"exists", "failed", "halted"}, Return(q, what),
           UNCHANGED <<job, landed, folder, synced, lock, stopped, foreign, caught, before>>,
           pc[q] \notin Ends \cup {"unwind"} \cup Keeping,
           hung' = hung \ {q},
           whole' = whole \/ (pc[q] = "copy" /\ whole' = whole \ {Muxed(q)})
    PROVE  IInv'
<1>0. /\ TypeInv /\ TypeOK /\ LockOK(q) /\ ArmedOK(q) /\ ReportOK(q) /\ GuardedOK(q) /\ OwnOK(q)
  BY DEF IInv, Local, TypeInv
<1>1. /\ UNCHANGED <<job, landed, dir, left, lock, stopped, foreign, armed, tries, synced>>
      /\ UNCHANGED <<caught, before, ours>>
  BY DEF folder, Return
<1>2. /\ pc'[q] = (IF pc[q] \in Holding THEN "unwind" ELSE "ended")
      /\ \A p \in Remuxes \ {q} : pc'[p] = pc[p]
      /\ pc' \in [Remuxes -> Labels]
  BY <1>0 DEF Return, Goto, TypeOK, Labels, Ends, Holding
<1>3. /\ said'[q] = what /\ \A p \in Remuxes \ {q} : said'[p] = said[p]
      /\ said' \in [Remuxes -> {"none", "exists", "failed", "halted", "kept", "done"}]
  BY <1>0 DEF Return, TypeOK
<1>4. T(q)' = T(q) /\ Landing(q)' = Landing(q) /\ MuxName(q)' = MuxName(q) /\ LandingFile(q)' = LandingFile(q)
  BY <1>1, SameJobs
<1>5. TypeInv'
  <2>1. \A t \in Targets : lock[t] # NoOne => pc'[lock[t]] \in Holding
    BY <1>0, <1>2 DEF TypeOK, Holding
  <2>2. whole' \subseteq Files /\ hung' \subseteq Remuxes
    BY <1>0 DEF TypeOK
  <2> QED BY <1>0, <1>1, <1>2, <1>3, <2>1, <2>2 DEF TypeInv, TypeOK
<1>6. Local(q)'
  <2>0. pc'[q] \in {"unwind", "ended"} /\ said[q] = "none" /\ q \notin hung'
    BY <1>0, <1>2 DEF ReportOK
  <2>1. LockOK(q)'
    BY <1>0, <1>1, <1>2 DEF LockOK, Works, ArmedOK, Holding, Workers, Keeping
  <2>2. ArmedOK(q)'
    BY <1>0, <1>1, <1>2, <1>4 DEF ArmedOK, Holding, Workers, Keeping
  <2>3. ReportOK(q)'
    BY <1>0, <1>1, <1>3, <2>0 DEF ReportOK, Ends
  <2>4. GuardedOK(q)'
    BY <1>0, <1>1, <1>4, <2>0 DEF GuardedOK, Ends, Stage, Muxed, Copied
  <2>5. OwnOK(q)' /\ BytesOK(q)'
    BY <1>3, <2>0 DEF OwnOK, BytesOK, Copying, Checked, Keeping
  <2> QED BY <2>1, <2>2, <2>3, <2>4, <2>5 DEF Local
<1>7. whole \cap Landable \subseteq whole'
  <2>1. CASE pc[q] = "copy"
    <3>1. job[q].staged
      BY <1>0, <2>1 DEF OwnOK, Copying
    <3>2. Muxed(q) \notin Landable
      <4>1. \A p : LandingFile(p) # Muxed(q)
        BY <3>1, FileFacts DEF LandingFile
      <4> QED BY <4>1, FileFacts DEF Landable
    <3> QED BY <3>2
  <2> QED BY <2>1
<1>8. Frame(q)
  BY <1>1, <1>2, <1>3, <1>7, FrameQuiet
<1>9. \A p \in Remuxes : Local(p)'
  BY <1>6, <1>8, FrameKeeps
<1>10. TargetInv'
  BY <1>1, <1>7, TargetsKept
<1>11. KeptInv' /\ CaughtInv'
  <2>1. \A p \in Remuxes : LandingFile(p)' = LandingFile(p)
    BY <1>1, SameJobs
  <2>2. \A p \in Remuxes : Claims(p)' =>
           Claims(p) /\ tries'[p] = tries[p] /\ KeptFile(p)' = KeptFile(p)
    BY <1>1, <1>2, <1>3, <2>1 DEF Claims, KeptFile, Placeholder, Keeping
  <2>3. \A p \in Remuxes : pc'[p] \in Keeping =>
           pc'[p] = pc[p] /\ tries'[p] = tries[p] /\ ours'[p] = ours[p]
    BY <1>1, <1>2 DEF Keeping
  <2> QED BY <1>1, <2>2, <2>3, ClaimsKept
<1> QED BY <1>5, <1>9, <1>10, <1>11 DEF IInv

----------------------------------------------------------------------------
(* The steps that go on or return. *)

LEMMA InvFacts ==
    ASSUME IInv, NEW q \in Remuxes
    PROVE  /\ TypeInv /\ TypeOK
           /\ LockOK(q) /\ ArmedOK(q) /\ ReportOK(q) /\ OwnOK(q) /\ GuardedOK(q) /\ BytesOK(q)
  BY DEF IInv, Local, TypeInv

\* What OwnOK and BytesOK say of a remux that goes on, by where it goes.
LEMMA OwnGoesOn ==
    ASSUME IInv, NEW q \in Remuxes, NEW label \in Labels, Goto(q, label),
           UNCHANGED <<job, dir, said>>, whole \subseteq whole', synced \subseteq synced',
           label \notin {"mux", "copyclear"} \/ (label = "copyclear" /\ job[q].staged),
           label \in {"sync", "verify"} => dir[MuxName(q)] = Muxed(q),
           label \in Copying => job[q].staged /\ dir[Landing(q)] = Copied(q),
           label \in Checked => dir[Landing(q)] = LandingFile(q),
           label = "verify" => Muxed(q) \in synced',
           label = "copyverify" => Copied(q) \in synced',
           label \in Checked => LandingFile(q) \in whole \cap synced
    PROVE  OwnOK(q)' /\ BytesOK(q)'
<1>1. pc'[q] = label
  BY InvFacts DEF Goto, TypeOK
<1>2. T(q)' = T(q) /\ Landing(q)' = Landing(q) /\ MuxName(q)' = MuxName(q) /\ LandingFile(q)' = LandingFile(q)
  BY SameJobs
<1>3. Muxed(q)' = Muxed(q) /\ Copied(q)' = Copied(q)
  BY DEF Muxed, Copied
<1>4. OwnOK(q)'
  BY <1>1, <1>2, <1>3 DEF OwnOK, Copying, Checked, Keeping
<1>5. BytesOK(q)'
  BY <1>1, <1>2, <1>3, InvFacts DEF BytesOK
<1> QED BY <1>4, <1>5

LEMMA StartInv == ASSUME IInv, NEW q \in Remuxes, Start(q) PROVE IInv'
<1>1. CASE Return(q, "exists")
  BY <1>1, ReturnInv DEF Start, At, Ends, bytes, world, Keeping
<1>2. CASE Goto(q, "acquire") /\ Stay
  <2>1. OwnOK(q)' /\ BytesOK(q)'
    BY <1>2, OwnGoesOn, InvFacts DEF Stay, Start, folder, bytes, Labels, Copying, Checked, TypeOK, Keeping
  <2> QED BY <1>2, <2>1, OnwardInv, InvFacts
          DEF Start, At, Ends, Holding, Workers, bytes, Labels, TypeOK, Keeping
<1> QED BY <1>1, <1>2 DEF Start

LEMMA MuxDoneInv == ASSUME IInv, NEW q \in Remuxes, MuxDone(q) PROVE IInv'
<1>1. /\ At(q, "mux") /\ Goto(q, "sync") /\ Stay
      /\ UNCHANGED <<job, landed, folder, synced, lock, world>>
      /\ whole \subseteq whole' /\ whole' \subseteq Files
  BY InvFacts, FileFacts DEF MuxDone, TypeOK
<1>2. dir[MuxName(q)] = Muxed(q)
  BY <1>1, InvFacts DEF MuxDone, At, OwnOK, Present
<1>3. OwnOK(q)' /\ BytesOK(q)'
  BY <1>1, <1>2, OwnGoesOn DEF Stay, folder, Labels, Holding, Workers, Copying, Checked, Keeping
<1> QED BY <1>1, <1>3, OnwardInv, InvFacts DEF At, Ends, Holding, Workers, Labels, TypeOK, Keeping

LEMMA DurableSyncInv == ASSUME IInv, NEW q \in Remuxes, DurableSync(q) PROVE IInv'
<1>1. CASE At(q, "sync") /\ Synced(q, dir[MuxName(q)], "verify")
  <2>1. /\ At(q, "sync") /\ Goto(q, "verify") /\ Stay
        /\ UNCHANGED <<job, landed, folder, whole, lock, world>>
        /\ dir[MuxName(q)] = Muxed(q) /\ synced' = synced \cup {Muxed(q)}
    BY <1>1, InvFacts DEF DurableSync, Synced, At, OwnOK
  <2>2. synced' \subseteq Files /\ whole \subseteq Files
    BY <2>1, InvFacts, FileFacts DEF TypeOK
  <2>3. OwnOK(q)' /\ BytesOK(q)'
    BY <2>1, OwnGoesOn DEF Stay, folder, Labels, Holding, Workers, Copying, Checked, Keeping
  <2> QED BY <2>1, <2>2, <2>3, OnwardInv DEF At, Ends, Holding, Workers, Labels, Keeping
<1>2. CASE At(q, "copysync") /\ Synced(q, dir[Landing(q)], "copyverify")
  <2>1. /\ At(q, "copysync") /\ Goto(q, "copyverify") /\ Stay
        /\ UNCHANGED <<job, landed, folder, whole, lock, world>>
        /\ job[q].staged /\ dir[Landing(q)] = Copied(q) /\ synced' = synced \cup {Copied(q)}
    BY <1>2, InvFacts DEF DurableSync, Synced, At, OwnOK, Copying
  <2>2. synced' \subseteq Files /\ whole \subseteq Files
    BY <2>1, InvFacts, FileFacts DEF TypeOK
  <2>3. OwnOK(q)' /\ BytesOK(q)'
    BY <2>1, OwnGoesOn DEF Stay, folder, Labels, Holding, Workers, Copying, Checked, Keeping
  <2> QED BY <2>1, <2>2, <2>3, OnwardInv DEF At, Ends, Holding, Workers, Labels, Keeping
<1> QED BY <1>1, <1>2 DEF DurableSync

LEMMA FailInv ==
    ASSUME IInv, NEW q \in Remuxes, Fail(q),
           UNCHANGED <<job, landed, folder, synced, lock, stopped, foreign, caught, before>>,
           pc[q] \notin Ends \cup {"unwind"} \cup Keeping,
           hung' = hung \ {q},
           whole' = whole \/ (pc[q] = "copy" /\ whole' = whole \ {Muxed(q)})
    PROVE  IInv'
<1>1. \E what \in {"exists", "failed", "halted"} : Return(q, what)
  BY DEF Fail
<1> QED BY <1>1, ReturnInv

LEMMA VerifyInv == ASSUME IInv, NEW q \in Remuxes, Verify(q) PROVE IInv'
<1>0. /\ UNCHANGED <<job, landed, folder, bytes, lock, world>> /\ q \notin hung
      /\ pc[q] \in {"verify", "copyverify"} /\ whole \subseteq Files /\ synced \subseteq Files
  BY InvFacts DEF Verify, At, TypeOK
<1>1. CASE Fail(q)
  BY <1>0, <1>1, FailInv DEF bytes, world, Ends, Keeping
<1>2. CASE /\ pc[q] = "verify" /\ Verified(q, MuxName(q)) /\ Stay
           /\ Goto(q, IF job[q].staged THEN "copyclear" ELSE "recheck")
  <2>1. /\ dir[MuxName(q)] = Muxed(q) /\ Muxed(q) \in whole \cap synced
    BY <1>2, InvFacts DEF OwnOK, BytesOK, Verified
  <2>2. PICK label \in {"copyclear", "recheck"} :
           Goto(q, label) /\ label = IF job[q].staged THEN "copyclear" ELSE "recheck"
    BY <1>2
  <2>3. label = "recheck" => dir[Landing(q)] = LandingFile(q) /\ LandingFile(q) = Muxed(q)
    BY <2>1, <2>2, InvFacts, Own DEF LandingFile
  <2>4. label \in Labels /\ label \in Holding
    BY <2>2 DEF Labels, Holding, Keeping
  <2>5. OwnOK(q)' /\ BytesOK(q)'
    BY <1>0, <1>2, <2>1, <2>2, <2>3, <2>4, OwnGoesOn DEF Stay, folder, bytes, Copying, Checked, Keeping
  <2> QED BY <1>0, <1>2, <2>2, <2>4, <2>5, OnwardInv DEF Ends, Holding, Workers, bytes, Keeping
<1>3. CASE pc[q] = "copyverify" /\ Verified(q, Landing(q)) /\ Goto(q, "recheck") /\ Stay
  <2>1. /\ job[q].staged /\ dir[Landing(q)] = Copied(q) /\ Copied(q) \in whole \cap synced
        /\ LandingFile(q) = Copied(q)
    BY <1>3, InvFacts DEF OwnOK, BytesOK, Verified, LandingFile, Copying
  <2>2. OwnOK(q)' /\ BytesOK(q)'
    BY <1>0, <1>3, <2>1, OwnGoesOn DEF Stay, folder, bytes, Labels, Holding, Copying, Checked, Keeping
  <2> QED BY <1>0, <1>3, <2>2, OnwardInv DEF Ends, Holding, Workers, bytes, Labels, Keeping
<1> QED BY <1>1, <1>2, <1>3 DEF Verify, At

LEMMA CopyDoneInv == ASSUME IInv, NEW q \in Remuxes, CopyDone(q) PROVE IInv'
<1>1. /\ At(q, "copy") /\ Goto(q, "copysync") /\ Stay
      /\ UNCHANGED <<job, landed, folder, synced, lock, world>>
      /\ whole \subseteq whole' /\ whole' \subseteq Files
  BY InvFacts, FileFacts DEF CopyDone, TypeOK
<1>2. job[q].staged /\ dir[Landing(q)] = Copied(q)
  BY <1>1, InvFacts DEF At, OwnOK, Copying
<1>3. OwnOK(q)' /\ BytesOK(q)'
  BY <1>1, <1>2, OwnGoesOn DEF Stay, folder, Labels, Holding, Workers, Copying, Checked, Keeping
<1> QED BY <1>1, <1>3, OnwardInv, InvFacts DEF At, Ends, Holding, Workers, Labels, TypeOK, Keeping

\* A remux whose file is verified goes on with it.
LEMMA CheckedGoesOn ==
    ASSUME IInv, NEW q \in Remuxes, NEW label \in Checked \ Keeping, Goto(q, label), Stay,
           UNCHANGED <<job, landed, folder, bytes, lock, world>>,
           pc[q] \in Checked \ Keeping, q \notin hung
    PROVE  IInv'
<1>1. /\ dir[Landing(q)] = LandingFile(q) /\ LandingFile(q) \in whole \cap synced
      /\ whole \subseteq Files /\ synced \subseteq Files
  BY InvFacts DEF OwnOK, BytesOK, TypeOK
<1>2. label \in Labels /\ label \in Holding /\ pc[q] \in Holding
  BY DEF Labels, Holding, Checked, Keeping
<1>3. OwnOK(q)' /\ BytesOK(q)'
  BY <1>1, <1>2, OwnGoesOn DEF Stay, folder, bytes, Copying, Checked, Keeping
<1> QED BY <1>1, <1>2, <1>3, OnwardInv DEF Ends, bytes, Checked, Keeping

LEMMA RecheckInv == ASSUME IInv, NEW q \in Remuxes, Recheck(q) PROVE IInv'
<1>1. CASE Return(q, "exists")
  BY <1>1, ReturnInv DEF Recheck, At, Ends, bytes, world, Keeping
<1>2. CASE Goto(q, "commit") /\ Stay
  BY <1>2, CheckedGoesOn DEF Recheck, At, Checked, Keeping
<1> QED BY <1>1, <1>2 DEF Recheck

LEMMA CommitInv == ASSUME IInv, NEW q \in Remuxes, Commit(q) PROVE IInv'
<1>1. CASE Fail(q)
  BY <1>1, FailInv DEF Commit, At, Ends, bytes, world, Keeping
<1>2. CASE Goto(q, "land") /\ Stay
  BY <1>2, CheckedGoesOn DEF Commit, At, Checked, Keeping
<1> QED BY <1>1, <1>2 DEF Commit

LEMMA FailsInv == ASSUME IInv, NEW q \in Remuxes, Fails(q) PROVE IInv'
  BY ReturnInv DEF Fails, Waits, Workers, Ends, bytes, world, Keeping

LEMMA HaltsInv == ASSUME IInv, NEW q \in Remuxes, Halts(q) PROVE IInv'
  BY FailInv DEF Halts, Waits, Workers, Ends, bytes, world, Keeping

LEMMA TimesOutInv == ASSUME IInv, NEW q \in Remuxes, AcquireTimesOut(q) PROVE IInv'
  BY FailInv DEF AcquireTimesOut, At, Ends, bytes, world, Keeping

LEMMA GiveUpInv == ASSUME IInv, NEW q \in Remuxes, GiveUp(q) PROVE IInv'
<1>1. pc[q] \in Workers
  BY InvFacts DEF GiveUp, ReportOK
<1> QED BY <1>1, FailInv DEF GiveUp, Workers, Ends, Keeping

----------------------------------------------------------------------------
(* The steps that take the lock, arm a guard, write a partial file or let go. *)

LEMMA PrivateInv ==
    ASSUME IInv, NEW q \in Remuxes, Frame(q), TypeInv', Local(q)',
           \A n \in Public : dir'[n] = dir[n],
           Claims(q)' => Claims(q) /\ tries'[q] = tries[q] /\ KeptFile(q)' = KeptFile(q),
           pc'[q] \in Keeping => pc'[q] = pc[q] /\ tries'[q] = tries[q] /\ ours'[q] = ours[q]
    PROVE  IInv'
<1>1. /\ UNCHANGED <<job, before>> /\ whole \cap Landable \subseteq whole' /\ synced \subseteq synced'
      /\ caught \subseteq caught' /\ \A n \in Public : left'[n] \subseteq left[n] \cup {dir'[n]}
  BY NamesIn DEF Frame
<1>2. \A p \in Remuxes : Local(p)'
  BY FrameKeeps
<1>3. TargetInv'
  BY <1>1, TargetsKept
<1>4. KeptInv' /\ CaughtInv'
  <2>1. \A p \in Remuxes : LandingFile(p)' = LandingFile(p)
    BY <1>1, SameJobs
  <2>2. \A p \in Remuxes \ {q} : Claims(p)' =>
           Claims(p) /\ tries'[p] = tries[p] /\ KeptFile(p)' = KeptFile(p)
    BY <1>1, <2>1 DEF Claims, KeptFile, Placeholder, Frame
  <2>3. \A p \in Remuxes : Claims(p)' =>
           Claims(p) /\ tries'[p] = tries[p] /\ KeptFile(p)' = KeptFile(p)
    BY <2>2
  <2>4. \A p \in Remuxes : pc'[p] \in Keeping =>
           pc'[p] = pc[p] /\ tries'[p] = tries[p] /\ ours'[p] = ours[p]
    BY DEF Frame
  <2> QED BY <1>1, <2>3, <2>4, ClaimsKept
<1> QED BY <1>2, <1>3, <1>4 DEF IInv

LEMMA HangInv == ASSUME IInv, NEW q \in Remuxes, Hang(q) PROVE IInv'
<1>1. /\ UNCHANGED <<job, pc, said, armed, tries, landed, dir, left, whole, synced, lock, stopped, foreign>>
      /\ UNCHANGED <<caught, before, ours>>
  BY DEF Hang, progress, folder, bytes
<1>2. TypeInv'
  BY <1>1, InvFacts DEF Hang, TypeInv, TypeOK
<1>3. Frame(q)
  BY <1>1, FrameQuiet DEF Hang
<1>4. T(q)' = T(q) /\ Landing(q)' = Landing(q) /\ MuxName(q)' = MuxName(q) /\ LandingFile(q)' = LandingFile(q)
  BY <1>1, SameJobs
<1>5. Local(q)'
  <2>1. LockOK(q)' /\ ArmedOK(q)'
    BY <1>1, <1>4, InvFacts DEF LockOK, Works, ArmedOK
  <2>2. ReportOK(q)'
    BY <1>1, InvFacts DEF ReportOK, Hang
  <2>3. OwnOK(q)' /\ GuardedOK(q)' /\ BytesOK(q)'
    BY <1>1, <1>4, InvFacts DEF OwnOK, GuardedOK, BytesOK, Muxed, Copied, Stage
  <2> QED BY <2>1, <2>2, <2>3 DEF Local
<1> QED BY <1>1, <1>2, <1>3, <1>4, <1>5, PrivateInv DEF Claims, KeptFile, Placeholder

LEMMA StopInv == ASSUME IInv, NEW q \in Remuxes, Stop(q) PROVE IInv'
<1>1. /\ UNCHANGED <<job, pc, said, armed, tries, landed, dir, left, whole, synced, lock, hung, foreign>>
      /\ UNCHANGED <<caught, before, ours>>
  BY DEF Stop, progress, folder, bytes
<1>2. TypeInv'
  BY <1>1, InvFacts DEF Stop, TypeInv, TypeOK
<1>3. Frame(q)
  BY <1>1, FrameQuiet
<1>4. T(q)' = T(q) /\ Landing(q)' = Landing(q) /\ MuxName(q)' = MuxName(q) /\ LandingFile(q)' = LandingFile(q)
  BY <1>1, SameJobs
<1>5. Local(q)'
  <2>1. LockOK(q)' /\ ArmedOK(q)' /\ ReportOK(q)'
    BY <1>1, <1>4, InvFacts DEF LockOK, Works, ArmedOK, ReportOK
  <2>2. OwnOK(q)' /\ GuardedOK(q)' /\ BytesOK(q)'
    BY <1>1, <1>4, InvFacts DEF OwnOK, GuardedOK, BytesOK, Muxed, Copied, Stage
  <2> QED BY <2>1, <2>2 DEF Local
<1> QED BY <1>1, <1>2, <1>3, <1>4, <1>5, PrivateInv DEF Claims, KeptFile, Placeholder

LEMMA AcquireInv == ASSUME IInv, NEW q \in Remuxes, Acquire(q) PROVE IInv'
<1>0. /\ pc[q] = "acquire" /\ q \notin hung /\ armed[q] = {} /\ said[q] = "none"
      /\ job[q].target \in Targets /\ lock[job[q].target] = NoOne /\ q # NoOne
  BY InvFacts, Own, NoOneAssumption
     DEF Acquire, At, ArmedOK, ReportOK, Holding, Workers, Ends, Keeping
<1>1. /\ UNCHANGED <<job, said, armed, tries, landed, dir, left, whole, synced, stopped, hung, foreign>>
      /\ UNCHANGED <<caught, before, ours>>
  BY DEF Acquire, Stay, folder, bytes, world
<1>2. /\ pc'[q] = "clear" /\ \A p \in Remuxes \ {q} : pc'[p] = pc[p]
      /\ pc' \in [Remuxes -> Labels]
  BY InvFacts DEF Acquire, Goto, TypeOK, Labels, Holding, Keeping
<1>3. /\ lock'[job[q].target] = q
      /\ \A t \in Targets : t # job[q].target => lock'[t] = lock[t]
      /\ lock' \in [Targets -> Remuxes \cup {NoOne}]
  BY <1>0, InvFacts DEF Acquire, TypeOK
<1>4. TypeInv'
  <2>1. \A t \in Targets : lock'[t] # NoOne => pc'[lock'[t]] \in Holding /\ job[lock'[t]].target = t
    BY <1>2, <1>3, InvFacts DEF TypeInv, TypeOK, Holding, Keeping
  <2> QED BY <1>1, <1>2, <1>3, <2>1, InvFacts DEF TypeInv, TypeOK
<1>5. Frame(q)
  BY <1>0, <1>1, <1>2, <1>3 DEF Frame
<1>6. T(q)' = T(q) /\ Landing(q)' = Landing(q) /\ MuxName(q)' = MuxName(q) /\ LandingFile(q)' = LandingFile(q)
  BY <1>1, SameJobs
<1>7. Local(q)'
  <2>1. LockOK(q)'
    BY <1>1, <1>3 DEF LockOK
  <2>2. ArmedOK(q)'
    BY <1>0, <1>1, <1>2 DEF ArmedOK
  <2>3. ReportOK(q)'
    BY <1>0, <1>1, <1>2, InvFacts DEF ReportOK, Ends
  <2>4. OwnOK(q)' /\ BytesOK(q)'
    BY <1>0, <1>1, <1>2 DEF OwnOK, BytesOK, Copying, Checked, Keeping
  <2>5. GuardedOK(q)'
    BY <1>0, <1>1, <1>2, <1>6, InvFacts DEF GuardedOK, Muxed, Copied, Stage
  <2> QED BY <2>1, <2>2, <2>3, <2>4, <2>5 DEF Local
<1> QED BY <1>0, <1>1, <1>2, <1>4, <1>5, <1>7, PrivateInv DEF Claims, Keeping

\* A change of the folder leaves what was there for a power loss to bring back.
LEMMA LeftBehind ==
    ASSUME TypeOK, dir' \in [Names -> Files \cup {NoFile}], Unsynced \/ FolderSynced \/ UNCHANGED left
    PROVE  /\ left' \in [Names -> SUBSET (Files \cup {NoFile})]
           /\ \A n \in Names : left'[n] \subseteq left[n] \cup {dir'[n]}
<1>1. left \in [Names -> SUBSET (Files \cup {NoFile})]
  BY DEF TypeOK
<1>2. CASE Unsynced
  BY <1>1, <1>2 DEF Unsynced
<1>3. CASE FolderSynced
  <2>1. \A n \in Names : left'[n] = left[n] \/ left'[n] = {dir'[n]}
    BY <1>3 DEF FolderSynced
  <2>2. left' = [n \in Names |-> left'[n]]
    BY <1>3 DEF FolderSynced
  <2> QED BY <1>1, <2>1, <2>2
<1>4. CASE UNCHANGED left
  BY <1>1, <1>4
<1> QED BY <1>2, <1>3, <1>4

\* A step of a remux that holds its lock and changes one of its partial files.
LEMMA WriteInv ==
    ASSUME IInv, NEW q \in Remuxes,
           NEW name \in {Stage(q), Landing(q)}, NEW file \in {NoFile, Muxed(q), Copied(q)},
           dir' = [dir EXCEPT ![name] = file],
           Unsynced, UNCHANGED <<job, said, tries, ours, landed, bytes, lock, world>>,
           NEW label, label = pc[q] \/ (label \in Holding \ ({"unwind"} \cup Keeping) /\ pc[q] # "unwind"), Goto(q, label),
           Works(q), q \notin hung, pc[q] \notin Keeping,
           NEW guards, armed' = [armed EXCEPT ![q] = guards],
           guards \subseteq {MuxName(q), Landing(q)},
           ArmedOK(q)', OwnOK(q)', GuardedOK(q)', BytesOK(q)'
    PROVE  IInv'
<1>0. TypeInv /\ TypeOK /\ {MuxName(q), Landing(q)} \subseteq Names /\ name \in Names /\ file \in Files \cup {NoFile}
  BY InvFacts, Own, NamesIn, FileFacts
<1>1. /\ UNCHANGED <<job, said, tries, landed, whole, synced, lock, stopped, hung, foreign>>
      /\ UNCHANGED <<caught, before, ours>>
  BY DEF bytes, world
<1>2. pc[q] \in Holding /\ label \in Labels /\ label \in Holding
  BY <1>0, InvFacts DEF Works, ArmedOK, Labels
<1>3. /\ pc'[q] = label /\ \A p \in Remuxes \ {q} : pc'[p] = pc[p]
      /\ pc' \in [Remuxes -> Labels]
  BY <1>0, <1>2 DEF Goto, TypeOK
<1>4. /\ armed'[q] = guards /\ \A p \in Remuxes \ {q} : armed'[p] = armed[p]
      /\ armed' \in [Remuxes -> SUBSET Names]
  BY <1>0 DEF TypeOK
<1>5. /\ dir'[name] = file /\ \A n \in Names \ {name} : dir'[n] = dir[n]
      /\ dir' \in [Names -> Files \cup {NoFile}]
  BY <1>0 DEF TypeOK
<1>51. /\ left' \in [Names -> SUBSET (Files \cup {NoFile})]
       /\ \A n \in Names : left'[n] \subseteq left[n] \cup {dir'[n]}
  BY <1>0, <1>5, LeftBehind
<1>6. TypeInv'
  <2>1. label \in Holding
    BY <1>2
  <2>2. \A t \in Targets : lock[t] # NoOne => pc'[lock[t]] \in Holding
    BY <1>0, <1>3, <2>1 DEF TypeOK
  <2> QED BY <1>0, <1>1, <1>3, <1>4, <1>5, <1>51, <2>2 DEF TypeInv, TypeOK
<1>7. Frame(q)
  <2>1. \A n \in Names : dir'[n] # dir[n] =>
           \/ n \in Public \cup {Stage(q)}
           \/ n = Landing(q) /\ Works(q) /\ dir'[n] \in {NoFile, Muxed(q), Copied(q)}
    BY <1>5
  <2> QED BY <1>1, <1>3, <1>4, <1>51, <2>1 DEF Frame
<1>8. Local(q)'
  <2>1. LockOK(q)'
    BY <1>1, InvFacts DEF LockOK
  <2>2. ReportOK(q)'
    <3>1. pc[q] \in Holding /\ label \in Holding /\ (label = pc[q] \/ label # "unwind")
      BY <1>2
    <3>2. q \notin hung' /\ said'[q] = said[q] /\ landed' = landed /\ before' = before
      BY <1>1
    <3>3. CASE label = pc[q]
      BY <1>3, <3>2, <3>3, InvFacts DEF ReportOK
    <3>4. CASE label # pc[q]
      <4>1. pc[q] # "unwind"
        BY <3>4
      <4> QED BY <1>3, <3>1, <3>2, <4>1, InvFacts DEF ReportOK, Ends, Holding, Workers, Keeping
    <3> QED BY <3>3, <3>4
  <2> QED BY <2>1, <2>2 DEF Local
<1>9. \A n \in Public : dir'[n] = dir[n]
  <2>1. name \notin Public
    BY PublicApart DEF Landing
  <2> QED BY <1>1, <1>5, <2>1, NamesIn
<1>10. LandingFile(q)' = LandingFile(q)
  BY <1>1, SameJobs
<1> QED BY <1>1, <1>3, <1>6, <1>7, <1>8, <1>9, <1>10, PrivateInv DEF Claims, KeptFile, Keeping

LEMMA OwnDiffer ==
    ASSUME IInv, NEW q \in Remuxes
    PROVE  /\ Stage(q) # Landing(q) /\ MuxName(q) \in {Stage(q), Landing(q)}
           /\ {Stage(q), Landing(q), MuxName(q)} \subseteq Names
           /\ Muxed(q) # NoFile /\ Copied(q) # NoFile
  BY InvFacts, Own, NameFacts, NamesIn, FileFacts DEF Landing

LEMMA ClearInv == ASSUME IInv, NEW q \in Remuxes, Clear(q) PROVE IInv'
<1>0. /\ pc[q] = "clear" /\ q \notin hung /\ Works(q)
      /\ Goto(q, "mux") /\ dir' = [dir EXCEPT ![MuxName(q)] = NoFile]
      /\ Unsynced /\ UNCHANGED <<job, said, tries, ours, landed, bytes, lock, world>>
  BY DEF Clear, At, Arm, Removed, Works, Holding, Workers, Keeping
<1>1. armed' = [armed EXCEPT ![q] = armed[q] \cup {MuxName(q)}]
  BY DEF Clear, Arm
<1>2. pc'[q] = "mux" /\ armed'[q] = armed[q] \cup {MuxName(q)}
  BY <1>0, <1>1, InvFacts DEF Goto, TypeOK
<1>3. \A n \in {Stage(q), Landing(q)} : dir'[n] = IF n = MuxName(q) THEN NoFile ELSE dir[n]
  BY <1>0, InvFacts, OwnDiffer DEF TypeOK
<1>4. MuxName(q)' = MuxName(q) /\ Landing(q)' = Landing(q)
  BY <1>0, SameJobs
<1>5. ArmedOK(q)'
  BY <1>2, <1>4, InvFacts DEF ArmedOK, Holding, Workers, Keeping
<1>6. OwnOK(q)' /\ BytesOK(q)'
  BY <1>0, <1>2, <1>3, <1>4, InvFacts, OwnDiffer DEF OwnOK, BytesOK, ReportOK, Copying, Checked, Keeping, Ends
<1>7. GuardedOK(q)'
  BY <1>0, <1>2, <1>3, <1>4, InvFacts, OwnDiffer DEF GuardedOK, Muxed, Copied, Stage, world
<1>8. armed[q] \cup {MuxName(q)} \subseteq {MuxName(q), Landing(q)}
  BY InvFacts DEF ArmedOK
<1>9. "mux" \in Holding \ ({"unwind"} \cup Keeping) /\ pc[q] \notin Keeping /\ pc[q] # "unwind"
  BY <1>0 DEF Holding, Keeping
<1> QED BY <1>0, <1>1, <1>5, <1>6, <1>7, <1>8, <1>9, OwnDiffer, WriteInv

LEMMA MuxOpensInv == ASSUME IInv, NEW q \in Remuxes, MuxOpens(q) PROVE IInv'
<1>0. /\ pc[q] = "mux" /\ q \notin hung /\ Works(q)
      /\ pc' = pc /\ armed' = armed /\ dir' = [dir EXCEPT ![MuxName(q)] = Muxed(q)]
      /\ Unsynced /\ UNCHANGED <<job, said, tries, ours, landed, bytes, lock, world>>
  BY DEF MuxOpens, At, progress, Works, Holding, Workers, Keeping
<1>1. armed' = [armed EXCEPT ![q] = armed[q]] /\ Goto(q, pc[q])
  BY <1>0, InvFacts DEF Goto, TypeOK
<1>2. MuxName(q) \in armed[q] /\ armed[q] \subseteq {MuxName(q), Landing(q)}
  BY <1>0, InvFacts DEF ArmedOK
<1>3. \A n \in {Stage(q), Landing(q)} : dir'[n] = IF n = MuxName(q) THEN Muxed(q) ELSE dir[n]
  BY <1>0, InvFacts, OwnDiffer DEF TypeOK
<1>4. MuxName(q)' = MuxName(q) /\ Landing(q)' = Landing(q)
  BY <1>0, SameJobs
<1>5. ArmedOK(q)'
  BY <1>0, <1>4, InvFacts DEF ArmedOK
<1>6. OwnOK(q)' /\ BytesOK(q)'
  BY <1>0, <1>3, <1>4, InvFacts, OwnDiffer DEF OwnOK, BytesOK, ReportOK, Copying, Checked, Keeping, Ends, Muxed
<1>7. GuardedOK(q)'
  BY <1>0, <1>2, <1>3, <1>4, InvFacts, OwnDiffer DEF GuardedOK, Muxed, Copied, Stage, world
<1>8. pc[q] \notin Keeping
  BY <1>0 DEF Keeping
<1> QED BY <1>0, <1>1, <1>2, <1>5, <1>6, <1>7, <1>8, OwnDiffer, WriteInv

LEMMA CopyClearInv == ASSUME IInv, NEW q \in Remuxes, CopyClear(q) PROVE IInv'
<1>0. /\ pc[q] = "copyclear" /\ q \notin hung /\ Works(q) /\ job[q].staged
      /\ Goto(q, "copy") /\ dir' = [dir EXCEPT ![Landing(q)] = Copied(q)]
      /\ Unsynced /\ UNCHANGED <<job, said, tries, ours, landed, bytes, lock, world>>
  BY InvFacts DEF CopyClear, At, Arm, Works, Holding, Workers, OwnOK, Keeping
<1>1. armed' = [armed EXCEPT ![q] = armed[q] \cup {Landing(q)}]
  BY DEF CopyClear, Arm
<1>2. pc'[q] = "copy" /\ armed'[q] = armed[q] \cup {Landing(q)}
  BY <1>0, <1>1, InvFacts DEF Goto, TypeOK
<1>3. \A n \in {Stage(q), Landing(q)} : dir'[n] = IF n = Landing(q) THEN Copied(q) ELSE dir[n]
  BY <1>0, InvFacts, OwnDiffer DEF TypeOK
<1>4. MuxName(q)' = MuxName(q) /\ Landing(q)' = Landing(q)
  BY <1>0, SameJobs
<1>5. ArmedOK(q)'
  BY <1>2, <1>4, InvFacts DEF ArmedOK, Holding, Workers, Keeping
<1>6. OwnOK(q)' /\ BytesOK(q)'
  BY <1>0, <1>2, <1>3, <1>4, InvFacts, OwnDiffer DEF OwnOK, BytesOK, ReportOK, Copying, Checked, Keeping, Ends, Copied
<1>7. GuardedOK(q)'
  BY <1>0, <1>2, <1>3, <1>4, InvFacts, OwnDiffer DEF GuardedOK, Muxed, Copied, Stage, world
<1>8. armed[q] \cup {Landing(q)} \subseteq {MuxName(q), Landing(q)}
  BY InvFacts DEF ArmedOK
<1>9. "copy" \in Holding \ ({"unwind"} \cup Keeping) /\ pc[q] \notin Keeping /\ pc[q] # "unwind"
  BY <1>0 DEF Holding, Workers, Keeping
<1> QED BY <1>0, <1>1, <1>5, <1>6, <1>7, <1>8, <1>9, OwnDiffer, WriteInv

\* A remux that lets go of its lock, having no file left to remove.
LEMMA LetsGo ==
    ASSUME IInv, NEW q \in Remuxes, NEW label \in Ends, Goto(q, label), pc[q] \notin Ends,
           armed' = [armed EXCEPT ![q] = {}], label = "dead" \/ armed[q] = {},
           hung' = hung \ {q},
           \A t \in Targets : lock'[t] = IF lock[t] = q THEN NoOne ELSE lock[t],
           lock' \in [Targets -> Remuxes \cup {NoOne}],
           UNCHANGED <<job, said, tries, landed, folder, bytes, stopped, foreign, caught, before>>,
           ours' = [ours EXCEPT ![q] = ours'[q]], ours'[q] \in {ours[q], NoFile}
    PROVE  IInv'
<1>1. UNCHANGED <<job, said, tries, landed, dir, left, whole, synced, stopped, foreign, caught, before>>
  BY DEF folder, bytes
<1>11. ours' \in [Remuxes -> Files \cup {NoFile}] /\ \A p \in Remuxes \ {q} : ours'[p] = ours[p]
  BY InvFacts DEF TypeOK
<1>2. /\ pc'[q] = label /\ \A p \in Remuxes \ {q} : pc'[p] = pc[p]
      /\ pc' \in [Remuxes -> Labels]
  BY InvFacts DEF Goto, TypeOK, Labels
<1>3. /\ armed'[q] = {} /\ \A p \in Remuxes \ {q} : armed'[p] = armed[p]
      /\ armed' \in [Remuxes -> SUBSET Names]
  BY InvFacts DEF TypeOK
<1>4. TypeInv'
  <2>1. \A t \in Targets : lock'[t] # NoOne => lock'[t] \in Remuxes \ {q} /\ lock'[t] = lock[t]
    BY InvFacts, NoOneAssumption DEF TypeOK
  <2>2. \A t \in Targets : lock'[t] # NoOne => pc'[lock'[t]] \in Holding /\ job[lock'[t]].target = t
    BY <1>2, <2>1, InvFacts DEF TypeInv, TypeOK
  <2>3. hung' \subseteq Remuxes
    BY InvFacts DEF TypeOK
  <2> QED BY <1>1, <1>11, <1>2, <1>3, <2>2, <2>3, InvFacts DEF TypeInv, TypeOK
<1>5. Frame(q)
  BY <1>1, <1>11, <1>2, <1>3 DEF Frame
<1>6. T(q)' = T(q) /\ Landing(q)' = Landing(q) /\ MuxName(q)' = MuxName(q) /\ LandingFile(q)' = LandingFile(q)
  BY <1>1, SameJobs
<1>7. pc'[q] \notin Holding \cup Keeping /\ pc'[q] \in Ends
  BY <1>2 DEF Ends, Holding, Workers, Keeping
<1>8. Local(q)'
  <2>1. LockOK(q)' /\ ArmedOK(q)'
    BY <1>3, <1>7 DEF LockOK, Works, ArmedOK, Holding, Keeping
  <2>2. ReportOK(q)'
    BY <1>1, <1>7, InvFacts DEF ReportOK
  <2>3. OwnOK(q)' /\ BytesOK(q)'
    BY <1>1, <1>6, <1>7, InvFacts DEF OwnOK, BytesOK, Copying, Checked, Ends, Keeping
  <2>4. GuardedOK(q)'
    BY <1>1, <1>2, <1>3, <1>6, InvFacts DEF GuardedOK, Muxed, Copied, Stage, Ends, Keeping
  <2> QED BY <2>1, <2>2, <2>3, <2>4 DEF Local
<1>9. Claims(q)' => Claims(q) /\ KeptFile(q)' = KeptFile(q)
  <2>1. Claims(q)' => said[q] = "kept" /\ q \notin before /\ pc'[q] \notin Keeping
    BY <1>1, <1>7 DEF Claims
  <2>2. said[q] = "kept" => pc[q] \notin Keeping
    BY InvFacts DEF ReportOK, Ends, Keeping
  <2> QED BY <1>6, <2>1, <2>2 DEF Claims, KeptFile
<1> QED BY <1>1, <1>4, <1>5, <1>7, <1>8, <1>9, PrivateInv

LEMMA KillInv == ASSUME IInv, NEW q \in Remuxes, Kill(q) PROVE IInv'
<1>1. /\ \A t \in Targets : lock'[t] = IF lock[t] = q THEN NoOne ELSE lock[t]
      /\ lock' \in [Targets -> Remuxes \cup {NoOne}]
  BY InvFacts DEF Kill, TypeOK
<1>2. ours' = [ours EXCEPT ![q] = ours'[q]] /\ ours'[q] = NoFile
  BY InvFacts DEF Kill, TypeOK
<1> QED BY <1>1, <1>2, LetsGo DEF Kill, Ends, Keeping

LEMMA UnwindInv == ASSUME IInv, NEW q \in Remuxes, Unwind(q) PROVE IInv'
<1>0. /\ pc[q] = "unwind" /\ q \notin hung
      /\ UNCHANGED <<job, ours, landed, bytes, world>>
  BY DEF Unwind, At
<1>01. ours' = [ours EXCEPT ![q] = ours'[q]] /\ ours'[q] = ours[q]
  BY <1>0, InvFacts DEF TypeOK
<1>1. CASE \E name \in armed[q] : /\ dir' = Removed(name) /\ Unsynced
                                  /\ armed' = [armed EXCEPT ![q] = @ \ {name}]
                                  /\ UNCHANGED <<pc, said, tries, lock>>
  <2>1. PICK name \in armed[q] : /\ dir' = [dir EXCEPT ![name] = NoFile] /\ Unsynced
                                 /\ armed' = [armed EXCEPT ![q] = armed[q] \ {name}]
                                 /\ UNCHANGED <<pc, said, tries, lock>>
    BY <1>1 DEF Removed
  <2>2. name \in {Stage(q), Landing(q)} /\ armed[q] \ {name} \subseteq {MuxName(q), Landing(q)}
    BY <2>1, InvFacts, OwnDiffer DEF ArmedOK
  <2>3. Works(q) /\ Goto(q, pc[q])
    BY <2>1, InvFacts DEF Works, Goto, TypeOK
  <2>4. pc'[q] = "unwind" /\ armed'[q] = armed[q] \ {name}
    BY <1>0, <2>1, InvFacts DEF TypeOK
  <2>5. \A n \in {Stage(q), Landing(q)} : dir'[n] = IF n = name THEN NoFile ELSE dir[n]
    BY <2>1, <2>2, InvFacts, OwnDiffer DEF TypeOK
  <2>6. MuxName(q)' = MuxName(q) /\ Landing(q)' = Landing(q)
    BY <1>0, SameJobs
  <2>7. ArmedOK(q)'
    BY <2>4, <2>6, InvFacts DEF ArmedOK, Holding, Keeping
  <2>8. OwnOK(q)' /\ BytesOK(q)'
    BY <1>0, <2>1, <2>4, SameJobs, InvFacts DEF OwnOK, BytesOK, Copying, Checked, Keeping, bytes
  <2>9. GuardedOK(q)'
    BY <1>0, <2>4, <2>5, <2>6, InvFacts, OwnDiffer DEF GuardedOK, Muxed, Copied, Stage, world
  <2>10. pc[q] \notin Keeping
    BY <1>0 DEF Keeping
  <2> QED BY <1>0, <2>1, <2>2, <2>3, <2>7, <2>8, <2>9, <2>10, WriteInv
<1>2. CASE /\ MayUnlock(q) /\ lock[job[q].target] = q
           /\ lock' = [lock EXCEPT ![job[q].target] = NoOne]
           /\ IF armed[q] = {} THEN Goto(q, "ended") ELSE UNCHANGED pc
           /\ UNCHANGED <<folder, said, armed, tries>>
  <2>1. armed[q] = {} /\ Goto(q, "ended") /\ armed' = [armed EXCEPT ![q] = {}]
    BY <1>2, InvFacts DEF MayUnlock, TypeOK
  <2>2. /\ \A t \in Targets : lock'[t] = IF lock[t] = q THEN NoOne ELSE lock[t]
        /\ lock' \in [Targets -> Remuxes \cup {NoOne}]
    BY <1>2, InvFacts, Own, NoOneAssumption DEF TypeOK, TypeInv
  <2>3. hung' = hung \ {q}
    BY <1>0 DEF world
  <2> QED BY <1>0, <1>01, <1>2, <2>1, <2>2, <2>3, LetsGo DEF Ends, world, Keeping
<1>3. CASE /\ armed[q] = {} /\ lock[job[q].target] # q
           /\ Goto(q, "ended") /\ UNCHANGED <<folder, said, armed, tries, lock>>
  <2>1. armed' = [armed EXCEPT ![q] = {}]
    BY <1>3, InvFacts DEF TypeOK
  <2>2. /\ \A t \in Targets : lock'[t] = IF lock[t] = q THEN NoOne ELSE lock[t]
        /\ lock' \in [Targets -> Remuxes \cup {NoOne}]
    BY <1>3, InvFacts, NoOneAssumption DEF TypeOK, TypeInv
  <2>3. hung' = hung \ {q}
    BY <1>0 DEF world
  <2> QED BY <1>0, <1>01, <1>3, <2>1, <2>2, <2>3, LetsGo DEF Ends, world, Keeping
<1> QED BY <1>1, <1>2, <1>3 DEF Unwind

----------------------------------------------------------------------------
(* The steps that publish, and those that are nobody's. *)

LEMMA LandInv == ASSUME IInv, NEW q \in Remuxes, Land(q) PROVE IInv'
<1>0. /\ pc[q] = "land" /\ q \notin hung /\ UNCHANGED <<job, whole, synced, lock, stopped, hung, foreign>>
      /\ UNCHANGED <<caught, before>>
  BY DEF Land, At, bytes, world
<1>1. CASE Return(q, "exists") /\ UNCHANGED <<landed, folder>>
  <2>1. hung' = hung \ {q}
    BY <1>0
  <2> QED BY <1>0, <1>1, <2>1, ReturnInv DEF Ends, Keeping
<1>2. CASE Goto(q, "keep") /\ Stay /\ UNCHANGED <<landed, folder>>
  BY <1>0, <1>2, CheckedGoesOn DEF Checked, Keeping, bytes, world
<1>3. CASE /\ dir' = Moved(Landing(q), T(q)) /\ landed' = landed \cup {q}
           /\ Unsynced \/ FolderSynced
           /\ armed' = [armed EXCEPT ![q] = @ \ {Landing(q)}]
           /\ \E what \in AfterLanding(q) : said' = [said EXCEPT ![q] = what]
           /\ Goto(q, "unwind") /\ UNCHANGED <<tries, ours>>
  <2>1. /\ dir[Landing(q)] = LandingFile(q) /\ LandingFile(q) \in whole \cap synced
        /\ LandingFile(q) \in Files \ Foreign /\ LandingFile(q) # NoFile
    BY <1>0, InvFacts, Own DEF OwnOK, BytesOK, Checked
  <2>2. /\ T(q) \in Names /\ Landing(q) \in Names /\ Stage(q) \in Names /\ T(q) \in Public
        /\ T(q) # Landing(q) /\ T(q) # Stage(q) /\ Stage(q) # Landing(q)
    BY InvFacts, Own, NamesIn, NameFacts DEF T, Landing
  <2>3. /\ dir'[T(q)] = LandingFile(q) /\ dir'[Landing(q)] = NoFile
        /\ \A n \in Names \ {T(q), Landing(q)} : dir'[n] = dir[n]
        /\ dir' \in [Names -> Files \cup {NoFile}]
    BY <1>3, <2>1, <2>2, InvFacts DEF Moved, TypeOK
  <2>4. /\ left' \in [Names -> SUBSET (Files \cup {NoFile})]
        /\ \A n \in Names : left'[n] \subseteq left[n] \cup {dir'[n]}
    BY <1>3, <2>3, InvFacts, LeftBehind
  <2>5. /\ pc'[q] = "unwind" /\ \A p \in Remuxes \ {q} : pc'[p] = pc[p]
        /\ pc' \in [Remuxes -> Labels]
    BY <1>3, InvFacts DEF Goto, TypeOK, Labels, Holding
  <2>6. /\ said'[q] = "done" /\ \A p \in Remuxes \ {q} : said'[p] = said[p]
        /\ said' \in [Remuxes -> {"none", "exists", "failed", "halted", "kept", "done"}]
    BY <1>3, InvFacts DEF AfterLanding, TypeOK
  <2>7. /\ armed'[q] = armed[q] \ {Landing(q)} /\ \A p \in Remuxes \ {q} : armed'[p] = armed[p]
        /\ armed' \in [Remuxes -> SUBSET Names]
    BY <1>3, InvFacts DEF TypeOK
  <2>8. T(q)' = T(q) /\ Landing(q)' = Landing(q) /\ MuxName(q)' = MuxName(q) /\ LandingFile(q)' = LandingFile(q)
    BY <1>0, SameJobs
  <2>9. Works(q)
    BY <1>0 DEF Works, Holding
  <2>10. TypeInv'
    <3>1. \A t \in Targets : lock[t] # NoOne => pc'[lock[t]] \in Holding
      BY <2>5, InvFacts DEF TypeOK, Holding
    <3>2. landed' \subseteq Remuxes
      BY <1>3, InvFacts DEF TypeOK
    <3> QED BY <1>0, <1>3, <2>3, <2>4, <2>5, <2>6, <2>7, <3>1, <3>2, InvFacts DEF TypeInv, TypeOK
  <2>11. Frame(q)
    <3>1. \A n \in Names : dir'[n] # dir[n] =>
             \/ n \in Public \cup {Stage(q)}
             \/ n = Landing(q) /\ Works(q) /\ dir'[n] \in {NoFile, Muxed(q), Copied(q)}
      BY <2>2, <2>3, <2>9
    <3> QED BY <1>0, <1>3, <2>4, <2>5, <2>6, <2>7, <3>1 DEF Frame
  <2>12. Local(q)'
    <3>1. LockOK(q)'
      BY <1>0, <2>9, InvFacts DEF LockOK
    <3>2. ArmedOK(q)'
      BY <2>5, <2>7, <2>8, InvFacts DEF ArmedOK, Holding
    <3>3. ReportOK(q)'
      BY <1>0, <1>3, <2>5, <2>6, InvFacts DEF ReportOK, Ends
    <3>4. OwnOK(q)' /\ BytesOK(q)'
      BY <1>0, <2>1, <2>5, <2>8 DEF OwnOK, BytesOK, Copying, Checked, Keeping
    <3>5. GuardedOK(q)'
      BY <1>0, <2>2, <2>3, <2>5, <2>7, <2>8, InvFacts, OwnDiffer DEF GuardedOK, Muxed, Copied, Stage
    <3> QED BY <3>1, <3>2, <3>3, <3>4, <3>5 DEF Local
  <2>13. \A p \in Remuxes : Local(p)'
    BY <2>11, <2>12, FrameKeeps
  <2>14. TargetInv'
    <3>1. Landable' = Landable /\ LandingFile(q) \in Landable
      BY <1>0, SameJobs DEF Landable
    <3>2. TargetInv
      BY DEF IInv
    <3>3. \A t \in Targets : Target(t) # T(q) =>
             dir'[Target(t)] = dir[Target(t)]
      BY <2>3, NamesIn, NameFacts DEF Landing
    <3>4. \A t \in Targets : {dir'[Target(t)]} \cup left'[Target(t)] \subseteq
                                 {dir[Target(t)], LandingFile(q)} \cup left[Target(t)]
      BY <2>3, <2>4, <3>3, NamesIn
    <3>5. \A t \in Targets :
             {dir'[Target(t)]} \cup left'[Target(t)] \subseteq (whole \cap synced) \cup {NoFile}
      BY <2>1, <3>2, <3>4 DEF TargetInv, TargetWhole
    <3>6. TargetWhole'
      BY <1>0, <3>5 DEF TargetWhole
    <3>7. \A t \in Targets : {dir'[Target(t)]} \cup left'[Target(t)] \subseteq Landable \cup {NoFile}
      BY <3>1, <3>2, <3>4 DEF TargetInv
    <3>8. \A n \in Public : dir'[n] \in Foreign => left'[n] \subseteq {dir'[n]}
      <4>1. \A n \in Public : n \in Names /\ (dir'[n] = dir[n] \/ dir'[n] = LandingFile(q))
        BY <2>2, <2>3, NamesIn, PublicApart DEF Landing
      <4> QED BY <2>1, <2>4, <3>2, <4>1 DEF TargetInv
    <3> QED BY <1>0, <3>1, <3>2, <3>6, <3>7, <3>8 DEF TargetInv
  <2>15. KeptInv' /\ CaughtInv'
    <3>1. \A p \in Remuxes : LandingFile(p)' = LandingFile(p)
      BY <1>0, SameJobs
    <3>2. \A p \in Remuxes : Claims(p)' =>
             Claims(p) /\ tries'[p] = tries[p] /\ KeptFile(p)' = KeptFile(p)
      BY <1>0, <1>3, <2>5, <2>6, <3>1 DEF Claims, KeptFile, Placeholder, Keeping
    <3>3. \A p \in Remuxes : Claims(p) => dir'[KeptName(p)] = dir[KeptName(p)]
      <4>1. \A p \in Remuxes : Claims(p) =>
               KeptName(p) \in Names /\ KeptName(p) # T(q) /\ KeptName(p) # Landing(q)
        BY OwnKept, InvFacts DEF IInv, KeptInv, T, Landing
      <4> QED BY <2>3, <4>1
    <3>4. \A p \in Remuxes : pc'[p] \in Keeping =>
             /\ pc'[p] = pc[p] /\ tries'[p] = tries[p] /\ ours'[p] = ours[p]
             /\ dir'[KeptName(p)] = dir[KeptName(p)]
      BY <1>3, <2>5, <3>3 DEF Claims, Keeping
    <3> QED BY <1>0, <3>2, <3>3, <3>4, ClaimsStay, CaughtStay
  <2> QED BY <2>10, <2>13, <2>14, <2>15 DEF IInv
<1> QED BY <1>1, <1>2, <1>3 DEF Land

\* A remux that is keeping its file: it writes at most under its kept name, or
\* moves its file there.
LEMMA KeepingInv ==
    ASSUME IInv, NEW q \in Remuxes, pc[q] \in {"keep"} \cup Keeping, q \notin hung,
           pc' = [pc EXCEPT ![q] = pc'[q]], pc'[q] \in {"keep", "unwind"} \cup Keeping,
           said' = [said EXCEPT ![q] = said'[q]],
           said'[q] = (IF pc'[q] = "unwind" THEN "kept" ELSE "none"),
           armed' = [armed EXCEPT ![q] = armed'[q]],
           tries' = [tries EXCEPT ![q] = tries'[q]], tries'[q] \in 0..Shorts + 1,
           ours' = [ours EXCEPT ![q] = ours'[q]], ours'[q] \in Files \cup {NoFile},
           dir' \in [Names -> Files \cup {NoFile}],
           tries[q] <= Shorts \/ UNCHANGED dir,
           \A name \in Names : name # KeptName(q) /\ name # Landing(q) => dir'[name] = dir[name],
           dir'[KeptName(q)] \in Foreign => UNCHANGED dir,
           IF pc'[q] = "unwind"
           THEN armed'[q] = armed[q] \ {Landing(q)} /\ dir'[Landing(q)] = NoFile
           ELSE armed'[q] = armed[q] /\ dir'[Landing(q)] = dir[Landing(q)],
           Unsynced \/ UNCHANGED left,
           UNCHANGED <<job, landed, bytes, lock, world>>,
           KeptInv', CaughtInv'
    PROVE  IInv'
<1>1. /\ UNCHANGED <<job, landed, whole, synced, lock, stopped, hung, foreign>>
      /\ UNCHANGED <<caught, before>>
  BY DEF bytes, world
<1>2. /\ \A p \in Remuxes \ {q} : pc'[p] = pc[p]
      /\ pc' \in [Remuxes -> Labels] /\ pc'[q] \in Holding
  BY InvFacts DEF Goto, TypeOK, Labels, Holding, Keeping
<1>3. /\ \A p \in Remuxes \ {q} : said'[p] = said[p]
      /\ said' \in [Remuxes -> {"none", "exists", "failed", "halted", "kept", "done"}]
  BY InvFacts DEF TypeOK
<1>4. /\ \A p \in Remuxes \ {q} : armed'[p] = armed[p]
      /\ armed' \in [Remuxes -> SUBSET Names]
  BY InvFacts DEF TypeOK
<1>5. \A p \in Remuxes \ {q} : tries'[p] = tries[p] /\ ours'[p] = ours[p]
  BY InvFacts DEF TypeOK
<1>6. tries' \in [Remuxes -> 0..Shorts + 1] /\ ours' \in [Remuxes -> Files \cup {NoFile}]
  BY InvFacts DEF TypeOK
<1>61. /\ left' \in [Names -> SUBSET (Files \cup {NoFile})]
       /\ \A n \in Names : left'[n] \subseteq left[n] \cup {dir'[n]}
  BY InvFacts, LeftBehind
<1>7. T(q)' = T(q) /\ Landing(q)' = Landing(q) /\ MuxName(q)' = MuxName(q) /\ LandingFile(q)' = LandingFile(q)
  BY <1>1, SameJobs
<1>8. Works(q) /\ pc[q] \in Checked
  BY DEF Works, Holding, Checked, Keeping
<1>9. TypeInv'
  <2>1. \A t \in Targets : lock[t] # NoOne => pc'[lock[t]] \in Holding
    BY <1>2, InvFacts DEF TypeOK
  <2> QED BY <1>1, <1>2, <1>3, <1>4, <1>6, <1>61, <2>1, InvFacts DEF TypeInv, TypeOK
<1>10. \A name \in Names : dir'[name] # dir[name] =>
          \/ name = KeptName(q) /\ name \in Public /\ \A t : name # Target(t) /\ name # Beside(t) /\ name # Stage(t)
          \/ name = Landing(q) /\ dir'[name] = NoFile
  BY InvFacts, OwnKept
<1>11. Frame(q)
  <2>1. \A name \in Names : dir'[name] # dir[name] =>
           \/ name \in Public \cup {Stage(q)}
           \/ name = Landing(q) /\ Works(q) /\ dir'[name] \in {NoFile, Muxed(q), Copied(q)}
    BY <1>8, <1>10
  <2> QED BY <1>1, <1>2, <1>3, <1>4, <1>5, <1>61, <2>1 DEF Frame
<1>12. Local(q)'
  <2>1. LockOK(q)'
    BY <1>1, <1>8, InvFacts DEF LockOK
  <2>2. ArmedOK(q)'
    BY <1>2, <1>4, <1>7, <1>8, InvFacts DEF ArmedOK, Holding, Keeping
  <2>3. ReportOK(q)'
    BY <1>1, <1>2, <1>3, InvFacts DEF ReportOK, Ends, Keeping
  <2>4. OwnOK(q)' /\ BytesOK(q)'
    BY <1>1, <1>2, <1>7, <1>8, InvFacts DEF OwnOK, BytesOK, Copying, Checked, Keeping
  <2>5. GuardedOK(q)'
    <3>1. dir'[Stage(q)] = dir[Stage(q)]
      BY <1>10, OwnDiffer
    <3>2. pc[q] # "dead" /\ pc'[q] # "start"
      BY DEF Keeping
    <3> QED BY <1>1, <1>2, <1>4, <1>7, <3>1, <3>2, InvFacts, OwnDiffer DEF GuardedOK, Muxed, Copied, Stage
  <2> QED BY <2>1, <2>2, <2>3, <2>4, <2>5 DEF Local
<1>13. \A p \in Remuxes : Local(p)'
  BY <1>11, <1>12, FrameKeeps
<1>14. TargetInv'
  <2>1. \A t \in Targets : dir'[Target(t)] = dir[Target(t)]
    BY <1>10, NamesIn, NameFacts DEF Landing
  <2>2. \A n \in Public : /\ left'[n] \subseteq left[n] \cup {dir'[n]}
                          /\ dir'[n] \in Foreign => dir'[n] = dir[n]
    BY <1>10, <1>61, NamesIn, PublicApart DEF Landing
  <2> QED BY <1>1, <2>1, <2>2, TargetsStay
<1> QED BY <1>9, <1>13, <1>14 DEF IInv

LEMMA OneMore ==
    ASSUME IInv, NEW q \in Remuxes, tries[q] <= Shorts, tries' = [tries EXCEPT ![q] = @ + 1]
    PROVE  /\ tries'[q] \in 0..Shorts + 1 /\ tries' = [tries EXCEPT ![q] = tries'[q]]
           /\ \A p \in Remuxes \ {q} : tries'[p] = tries[p]
<1>1. tries \in [Remuxes -> 0..Shorts + 1]
  BY InvFacts DEF TypeOK
<1>2. tries[q] \in 0..Shorts + 1 /\ tries'[q] = tries[q] + 1
  BY <1>1
<1>3. tries'[q] \in 0..Shorts + 1
  BY <1>2, ShortsAssumption
<1> QED BY <1>1, <1>2, <1>3

\* What the other remuxes keep is not under the name one of them works on.
LEMMA OthersKept ==
    ASSUME IInv, NEW q \in Remuxes, Claims(q) \/ ~Present(KeptName(q)), tries[q] <= Shorts,
           NEW p \in Remuxes, p # q, Claims(p)
    PROVE  /\ KeptName(p) \in Names /\ KeptName(p) # KeptName(q) /\ KeptName(p) # Landing(q)
           /\ tries[p] <= Shorts /\ dir[KeptName(p)] \in {KeptFile(p)} \cup Foreign
<1>1. tries[p] <= Shorts /\ dir[KeptName(p)] \in {KeptFile(p)} \cup Foreign
  BY DEF IInv, KeptInv
<1>2. KeptFile(p) # NoFile /\ NoFile \notin Foreign
  BY FileFacts, InvFacts, Own DEF KeptFile
<1>3. KeptName(p) # KeptName(q)
  <2>1. CASE Claims(q)
    BY <2>1 DEF IInv, KeptInv
  <2>2. CASE ~Present(KeptName(q))
    BY <1>1, <1>2, <2>2 DEF Present
  <2> QED BY <2>1, <2>2
<1> QED BY <1>1, <1>3, OwnKept, InvFacts DEF Landing

\* What comes into a remux's hands when that remux alone takes a step.
LEMMA CaughtBy ==
    ASSUME IInv, NEW q \in Remuxes, UNCHANGED <<job, caught>>,
           \A p \in Remuxes \ {q} : pc'[p] = pc[p] /\ tries'[p] = tries[p] /\ ours'[p] = ours[p],
           \A p \in Remuxes \ {q} : pc[p] \in Keeping => dir'[KeptName(p)] = dir[KeptName(p)],
           \/ pc'[q] \notin Keeping \/ q \in caught
           \/ /\ tries'[q] = tries[q]
              /\ pc'[q] = "reserved" => ~Alike(dir'[KeptName(q)])
              /\ pc'[q] \in {"keeping", "unkeep"} => ~Alike(ours'[q])
              /\ pc'[q] = "removing" => dir'[KeptName(q)] \notin Foreign
    PROVE  CaughtInv'
<1>1. \A p \in Remuxes : tries'[p] = tries[p] => KeptName(p)' = KeptName(p)
  BY DEF KeptName
<1>2. ASSUME NEW p \in Remuxes, p \notin caught', pc'[p] \in Keeping
      PROVE  /\ tries'[p] = tries[p]
             /\ pc'[p] = "reserved" => ~Alike(dir'[KeptName(p)])
             /\ pc'[p] \in {"keeping", "unkeep"} => ~Alike(ours'[p])
             /\ pc'[p] = "removing" => dir'[KeptName(p)] \notin Foreign
  BY <1>2 DEF IInv, CaughtInv
<1> QED BY <1>1, <1>2 DEF CaughtInv, Keeping, Alike, Empty, Foreign

\* A remux that goes on to the next kept name, whatever became of this one.
LEMMA NextNameInv ==
    ASSUME IInv, NEW q \in Remuxes, pc[q] \in {"keep"} \cup Keeping, q \notin hung,
           tries[q] <= Shorts, NextName(q), dir' \in {dir, Removed(KeptName(q))},
           pc[q] \in Keeping \/ UNCHANGED dir,
           Unsynced \/ UNCHANGED left, UNCHANGED <<job, landed, bytes, lock, world>>
    PROVE  IInv'
<1>1. KeptName(q) \in Names /\ KeptName(q) # Landing(q) /\ NoFile \notin Foreign
  BY InvFacts, OwnKept, FileFacts DEF Landing
<1>2. /\ dir' \in [Names -> Files \cup {NoFile}]
      /\ \A name \in Names : name # KeptName(q) => dir'[name] = dir[name]
      /\ dir'[KeptName(q)] \in Foreign => UNCHANGED dir
  BY <1>1, InvFacts DEF TypeOK, Removed
<1>3. /\ pc'[q] = "keep" /\ pc' = [pc EXCEPT ![q] = pc'[q]]
      /\ said'[q] = "none" /\ said' = [said EXCEPT ![q] = said'[q]]
      /\ armed'[q] = armed[q] /\ armed' = [armed EXCEPT ![q] = armed'[q]]
      /\ ours'[q] = NoFile /\ ours' = [ours EXCEPT ![q] = ours'[q]]
      /\ \A p \in Remuxes \ {q} : pc'[p] = pc[p] /\ ours'[p] = ours[p]
  BY InvFacts DEF NextName, Goto, TypeOK, ReportOK, Ends, Keeping
<1>4. /\ tries'[q] \in 0..Shorts + 1 /\ tries' = [tries EXCEPT ![q] = tries'[q]]
      /\ \A p \in Remuxes \ {q} : tries'[p] = tries[p]
  BY OneMore DEF NextName
<1>5. ~Claims(q)' /\ pc'[q] \notin Keeping
  BY <1>3 DEF Claims, Keeping
<1>6. \A p \in Remuxes : LandingFile(p)' = LandingFile(p)
  BY SameJobs
<1>7. \A p \in Remuxes \ {q} : (Claims(p)' <=> Claims(p)) /\ KeptFile(p)' = KeptFile(p)
  BY <1>3, <1>6 DEF NextName, Claims, KeptFile, Placeholder, world
<1>8. \A p \in Remuxes \ {q} : Claims(p) => dir'[KeptName(p)] = dir[KeptName(p)]
  BY <1>2, OthersKept DEF Claims
<1>9. KeptInv'
  BY <1>4, <1>5, <1>7, <1>8, ClaimsStay
<1>10. CaughtInv'
  <2>1. \A p \in Remuxes \ {q} : pc[p] \in Keeping => dir'[KeptName(p)] = dir[KeptName(p)]
    BY <1>8 DEF Claims
  <2> QED BY <1>3, <1>4, <1>5, <2>1, CaughtBy DEF world
<1>11. dir'[Landing(q)] = dir[Landing(q)]
  BY <1>1, <1>2, OwnDiffer
<1> QED BY <1>2, <1>3, <1>4, <1>9, <1>10, <1>11, KeepingInv

\* A remux that goes on with the name it has reserved, and changes nothing there.
LEMMA KeepsInv ==
    ASSUME IInv, NEW q \in Remuxes, pc[q] \in Keeping, q \notin hung,
           NEW label \in Keeping, Goto(q, label), UNCHANGED <<said, armed, tries, folder>>,
           NEW file \in Files \cup {NoFile}, ours' = [ours EXCEPT ![q] = file],
           q \in caught \/ (label # "reserved"
                            /\ (label \in {"keeping", "unkeep"} => ~Alike(file))
                            /\ (label = "removing" => dir[KeptName(q)] \notin Foreign)),
           UNCHANGED <<job, landed, bytes, lock, world>>
    PROVE  IInv'
<1>1. tries[q] <= Shorts
  BY DEF IInv, KeptInv, Claims
<1>2. /\ pc'[q] = label /\ pc' = [pc EXCEPT ![q] = pc'[q]]
      /\ said'[q] = "none" /\ said' = [said EXCEPT ![q] = said'[q]]
      /\ armed'[q] = armed[q] /\ armed' = [armed EXCEPT ![q] = armed'[q]]
      /\ tries'[q] \in 0..Shorts + 1 /\ tries' = [tries EXCEPT ![q] = tries'[q]]
      /\ ours'[q] = file /\ ours' = [ours EXCEPT ![q] = ours'[q]]
      /\ \A p \in Remuxes \ {q} : pc'[p] = pc[p] /\ ours'[p] = ours[p]
  BY InvFacts DEF Goto, TypeOK, ReportOK, Ends, Keeping
<1>3. UNCHANGED <<dir, left, caught, before>> /\ dir' \in [Names -> Files \cup {NoFile}]
  BY InvFacts DEF TypeOK, folder, world
<1>4. \A p \in Remuxes : LandingFile(p)' = LandingFile(p)
  BY SameJobs
<1>5. \A p \in Remuxes : (Claims(p)' <=> Claims(p)) /\ KeptFile(p)' = KeptFile(p)
  BY <1>2, <1>3, <1>4 DEF Claims, KeptFile, Placeholder
<1>6. KeptInv'
  BY <1>3, <1>5, ClaimsStay
<1>7. CaughtInv'
  BY <1>2, <1>3, CaughtBy
<1>8. pc'[q] # "unwind"
  BY <1>2 DEF Keeping
<1> QED BY <1>1, <1>2, <1>3, <1>6, <1>7, <1>8, KeepingInv

LEMMA ReserveInv == ASSUME IInv, NEW q \in Remuxes, Reserve(q) PROVE IInv'
<1>0. /\ pc[q] = "keep" /\ q \notin hung /\ said[q] = "none" /\ ~Claims(q)
      /\ UNCHANGED <<job, landed, bytes, lock, world>>
  BY InvFacts DEF Reserve, At, ReportOK, Ends, Claims, Keeping
<1>1. CASE Return(q, "failed") /\ UNCHANGED folder
  <2>1. hung' = hung \ {q}
    BY <1>0 DEF world
  <2> QED BY <1>0, <1>1, <2>1, ReturnInv DEF Ends, Keeping, bytes, world
<1>2. CASE tries[q] <= Shorts /\ NextName(q) /\ UNCHANGED folder
  BY <1>0, <1>2, NextNameInv DEF folder
<1>3. CASE /\ tries[q] <= Shorts /\ Reserved(q)
           /\ dir' = [dir EXCEPT ![KeptName(q)] = Placeholder(q)] /\ Unsynced
           /\ Goto(q, "reserved") /\ Stay
  <2>1. /\ KeptName(q) \in Names /\ KeptName(q) # Landing(q)
        /\ Placeholder(q) \in Files \ Foreign /\ ~Present(KeptName(q))
    BY <1>3, InvFacts, OwnKept, FileFacts DEF Landing, Reserved
  <2>2. /\ dir' \in [Names -> Files \cup {NoFile}] /\ dir'[KeptName(q)] = Placeholder(q)
        /\ \A name \in Names : name # KeptName(q) => dir'[name] = dir[name]
    BY <1>3, <2>1, InvFacts DEF TypeOK
  <2>3. /\ said' = [said EXCEPT ![q] = said'[q]] /\ armed' = [armed EXCEPT ![q] = armed'[q]]
        /\ tries' = [tries EXCEPT ![q] = tries'[q]] /\ ours' = [ours EXCEPT ![q] = ours'[q]]
        /\ UNCHANGED <<said, armed, tries, ours>>
        /\ tries'[q] \in 0..Shorts + 1 /\ said'[q] = "none" /\ ours'[q] \in Files \cup {NoFile}
    BY <1>0, <1>3, InvFacts DEF Stay, TypeOK
  <2>4. /\ pc'[q] = "reserved" /\ \A p \in Remuxes \ {q} : pc'[p] = pc[p]
        /\ pc' = [pc EXCEPT ![q] = pc'[q]] /\ pc'[q] \in Keeping
    BY <1>3, InvFacts DEF Goto, TypeOK, Keeping
  <2>5. \A p \in Remuxes : KeptName(p)' = KeptName(p) /\ LandingFile(p)' = LandingFile(p)
    BY <1>0, <2>3, SameJobs
  <2>6. \A p \in Remuxes \ {q} :
           /\ Claims(p)' <=> Claims(p)
           /\ KeptFile(p)' = KeptFile(p)
    BY <1>0, <2>3, <2>4, <2>5 DEF Claims, KeptFile, Placeholder, world
  <2>7. Claims(q)' /\ KeptFile(q)' = Placeholder(q)
    BY <2>4 DEF Claims, KeptFile, Placeholder
  <2>8. \A p \in Remuxes \ {q} : Claims(p) =>
           /\ tries[p] <= Shorts /\ KeptName(p) \in Names /\ KeptName(p) # KeptName(q)
           /\ dir[KeptName(p)] \in {KeptFile(p)} \cup Foreign
    BY <1>3, <2>1, OthersKept
  <2>9. KeptInv'
    <3> SUFFICES ASSUME NEW p \in Remuxes, Claims(p)'
                 PROVE  /\ tries'[p] <= Shorts
                        /\ dir'[KeptName(p)] \in {KeptFile(p)'} \cup Foreign
                        /\ \A r \in Remuxes \ {p} : Claims(r)' => KeptName(r) # KeptName(p)
      BY <2>5 DEF KeptInv, Foreign
    <3>1. CASE p = q
      BY <1>3, <2>2, <2>3, <2>6, <2>7, <2>8, <3>1
    <3>2. CASE p # q
      <4>1. \A r \in Remuxes \ {p} : Claims(r) => KeptName(r) # KeptName(p)
        BY <2>6, <3>2 DEF IInv, KeptInv
      <4>2. \A r \in Remuxes \ {p} : Claims(r)' => KeptName(r) # KeptName(p)
        BY <2>6, <2>8, <3>2, <4>1
      <4> QED BY <2>2, <2>3, <2>6, <2>8, <3>2, <4>2
    <3> QED BY <3>1, <3>2
  <2>10. CaughtInv'
    <3>1. \A p \in Remuxes \ {q} : pc[p] \in Keeping => dir'[KeptName(p)] = dir[KeptName(p)]
      BY <2>2, <2>8 DEF Claims
    <3> QED BY <1>0, <2>1, <2>2, <2>3, <2>4, <3>1, CaughtBy DEF Alike, world
  <2>11. dir'[Landing(q)] = dir[Landing(q)]
    BY <2>1, <2>2, OwnDiffer
  <2> QED BY <1>0, <1>3, <2>1, <2>2, <2>3, <2>4, <2>9, <2>10, <2>11, KeepingInv
<1> QED BY <1>1, <1>2, <1>3 DEF Reserve

\* A remux with a placeholder claims its name.
LEMMA KeepingFacts ==
    ASSUME IInv, NEW q \in Remuxes, pc[q] \in Keeping
    PROVE  /\ Claims(q) /\ tries[q] <= Shorts /\ said[q] = "none"
           /\ KeptName(q) \in Names /\ KeptName(q) # Landing(q) /\ Landing(q) \in Names
           /\ dir[KeptName(q)] \in Files \cup {NoFile} /\ ours[q] \in Files \cup {NoFile}
<1>1. Claims(q) /\ tries[q] <= Shorts
  BY DEF Claims, IInv, KeptInv
<1>2. said[q] = "none"
  BY InvFacts DEF ReportOK, Ends, Keeping
<1> QED BY <1>1, <1>2, InvFacts, OwnKept, Own DEF Landing, TypeOK

LEMMA IdentifyInv == ASSUME IInv, NEW q \in Remuxes, Identify(q) PROVE IInv'
<1>1. /\ pc[q] = "reserved" /\ pc[q] \in Keeping /\ q \notin hung /\ Goto(q, "keeping")
      /\ UNCHANGED <<said, armed, tries, folder>> /\ UNCHANGED <<job, landed, bytes, lock, world>>
  BY DEF Identify, At, Keeping
<1>2. dir[KeptName(q)] \in Files \cup {NoFile} /\ ours[q] \in Files \cup {NoFile}
  BY <1>1, KeepingFacts
<1>3. q \in caught \/ ~Alike(dir[KeptName(q)])
  BY <1>1 DEF IInv, CaughtInv
<1>4. PICK file \in {dir[KeptName(q)], NoFile} : ours' = [ours EXCEPT ![q] = file]
  BY DEF Identify
<1>5. file \in Files \cup {NoFile} /\ (q \in caught \/ ~Alike(file))
  BY <1>2, <1>3, <1>4, FileFacts DEF Alike
<1> QED BY <1>1, <1>4, <1>5, KeepsInv DEF Keeping

LEMMA KeepAtInv == ASSUME IInv, NEW q \in Remuxes, KeepAt(q) PROVE IInv'
<1>0. /\ pc[q] = "keeping" /\ pc[q] \in Keeping /\ q \notin hung
      /\ UNCHANGED <<job, landed, bytes, lock, world>>
  BY DEF KeepAt, At, Keeping
<1>1. /\ Claims(q) /\ tries[q] <= Shorts /\ said[q] = "none"
      /\ KeptName(q) \in Names /\ KeptName(q) # Landing(q) /\ Landing(q) \in Names
      /\ ours[q] \in Files \cup {NoFile}
  BY <1>0, KeepingFacts
<1>2. dir[Landing(q)] = LandingFile(q) /\ LandingFile(q) \in Files \ Foreign
  BY <1>0, InvFacts, Own DEF OwnOK, Checked
<1>3. \A p \in Remuxes \ {q} : Claims(p) =>
         /\ KeptName(p) \in Names /\ KeptName(p) # KeptName(q) /\ KeptName(p) # Landing(q)
         /\ tries[p] <= Shorts /\ dir[KeptName(p)] \in {KeptFile(p)} \cup Foreign
  BY <1>1, OthersKept
<1>4. \A p \in Remuxes : LandingFile(p)' = LandingFile(p)
  BY <1>0, SameJobs
<1>5. CASE Goto(q, "unkeep") /\ Stay /\ UNCHANGED folder
  <2>1. ours' = [ours EXCEPT ![q] = ours[q]] /\ UNCHANGED <<said, armed, tries, folder>>
    BY <1>5, InvFacts DEF Stay, TypeOK
  <2>2. q \in caught \/ ~Alike(ours[q])
    BY <1>0 DEF IInv, CaughtInv
  <2> QED BY <1>0, <1>1, <1>5, <2>1, <2>2, KeepsInv DEF Keeping
<1>6. CASE /\ dir' = Moved(Landing(q), KeptName(q)) /\ Unsynced
           /\ armed' = [armed EXCEPT ![q] = @ \ {Landing(q)}]
           /\ said' = [said EXCEPT ![q] = "kept"]
           /\ ours' = [ours EXCEPT ![q] = NoFile]
           /\ Goto(q, "unwind") /\ UNCHANGED tries
  <2>1. /\ dir'[KeptName(q)] = LandingFile(q) /\ dir'[Landing(q)] = NoFile
        /\ \A name \in Names : name # KeptName(q) /\ name # Landing(q) => dir'[name] = dir[name]
        /\ dir' \in [Names -> Files \cup {NoFile}]
    BY <1>1, <1>2, <1>6, InvFacts DEF Moved, TypeOK
  <2>2. /\ pc'[q] = "unwind" /\ pc' = [pc EXCEPT ![q] = pc'[q]]
        /\ said'[q] = "kept" /\ said' = [said EXCEPT ![q] = said'[q]]
        /\ armed'[q] = armed[q] \ {Landing(q)} /\ armed' = [armed EXCEPT ![q] = armed'[q]]
        /\ tries'[q] \in 0..Shorts + 1 /\ tries' = [tries EXCEPT ![q] = tries'[q]]
        /\ ours'[q] = NoFile /\ ours' = [ours EXCEPT ![q] = ours'[q]]
    BY <1>6, InvFacts DEF Goto, TypeOK
  <2>3. \A p \in Remuxes \ {q} : pc'[p] = pc[p] /\ said'[p] = said[p] /\ ours'[p] = ours[p]
    BY <1>6, InvFacts DEF Goto, TypeOK
  <2>4. \A p \in Remuxes : KeptName(p)' = KeptName(p)
    BY <1>0, <1>6, SameJobs
  <2>5. \A p \in Remuxes \ {q} : (Claims(p)' <=> Claims(p)) /\ KeptFile(p)' = KeptFile(p)
    BY <1>0, <1>4, <2>3 DEF Claims, KeptFile, Placeholder, world
  <2>6. Claims(q)' /\ KeptFile(q)' = LandingFile(q)
    <3>1. q \notin before /\ before' = before
      BY <1>0, InvFacts DEF ReportOK, Ends, world
    <3>2. pc'[q] \notin Keeping
      BY <2>2 DEF Keeping
    <3> QED BY <1>4, <2>2, <3>1, <3>2 DEF Claims, KeptFile
  <2>7. KeptInv'
    <3> SUFFICES ASSUME NEW p \in Remuxes, Claims(p)'
                 PROVE  /\ tries'[p] <= Shorts
                        /\ dir'[KeptName(p)] \in {KeptFile(p)'} \cup Foreign
                        /\ \A r \in Remuxes \ {p} : Claims(r)' => KeptName(r) # KeptName(p)
      BY <2>4 DEF KeptInv, Foreign
    <3>1. CASE p = q
      BY <1>1, <1>3, <1>6, <2>1, <2>5, <2>6, <3>1
    <3>2. CASE p # q
      <4>1. \A r \in Remuxes \ {p} : Claims(r) => KeptName(r) # KeptName(p)
        BY <2>5, <3>2 DEF IInv, KeptInv
      <4>2. \A r \in Remuxes \ {p} : Claims(r)' => KeptName(r) # KeptName(p)
        BY <1>3, <2>5, <3>2, <4>1
      <4> QED BY <1>3, <1>6, <2>1, <2>5, <3>2, <4>2
    <3> QED BY <3>1, <3>2
  <2>8. CaughtInv'
    <3>1. \A p \in Remuxes \ {q} : pc[p] \in Keeping => dir'[KeptName(p)] = dir[KeptName(p)]
      BY <1>3, <2>1 DEF Claims
    <3>2. pc'[q] \notin Keeping
      BY <2>2 DEF Keeping
    <3> QED BY <1>0, <1>6, <2>3, <3>1, <3>2, CaughtBy DEF world
  <2> QED BY <1>0, <1>1, <1>2, <1>6, <2>1, <2>2, <2>7, <2>8, KeepingInv
<1> QED BY <1>5, <1>6 DEF KeepAt

LEMMA UnkeepInv == ASSUME IInv, NEW q \in Remuxes, Unkeep(q) PROVE IInv'
<1>1. /\ pc[q] = "unkeep" /\ pc[q] \in Keeping /\ q \notin hung
      /\ UNCHANGED folder /\ UNCHANGED <<job, landed, bytes, lock, world>>
  BY DEF Unkeep, At, Keeping
<1>2. tries[q] <= Shorts /\ ours[q] \in Files \cup {NoFile}
  BY <1>1, KeepingFacts
<1>3. CASE Ours(q) /\ Goto(q, "removing") /\ Stay
  <2>1. ours' = [ours EXCEPT ![q] = ours[q]] /\ UNCHANGED <<said, armed, tries, folder>>
    BY <1>1, <1>3, InvFacts DEF Stay, TypeOK
  <2>2. q \in caught \/ ~Alike(ours[q])
    BY <1>1 DEF IInv, CaughtInv
  <2>3. q \in caught \/ dir[KeptName(q)] \notin Foreign
    BY <1>3, <2>2 DEF Ours, Alike
  <2> QED BY <1>1, <1>2, <1>3, <2>1, <2>3, KeepsInv DEF Keeping
<1>4. CASE NextName(q)
  BY <1>1, <1>2, <1>4, NextNameInv DEF folder
<1> QED BY <1>3, <1>4 DEF Unkeep

LEMMA UnreserveInv == ASSUME IInv, NEW q \in Remuxes, Unreserve(q) PROVE IInv'
<1>1. pc[q] \in Keeping /\ q \notin hung
  BY DEF Unreserve, At, Keeping
<1>2. tries[q] <= Shorts
  BY <1>1, KeepingFacts
<1> QED BY <1>1, <1>2, NextNameInv DEF Unreserve

\* A power loss ends the remuxes that have begun, and takes each name back to a
\* file it led to since the folder was synced.
LEMMA PowerLossInv == ASSUME IInv, PowerLoss PROVE IInv'
<1>0. /\ TypeInv /\ TypeOK /\ TargetInv
      /\ UNCHANGED <<job, said, tries, landed, synced, stopped, foreign, caught>>
  BY DEF IInv, TypeInv, PowerLoss
<1>1. /\ pc' \in [Remuxes -> Labels]
      /\ \A p \in Remuxes : pc'[p] = IF pc[p] \in {"start", "ended"} THEN pc[p] ELSE "dead"
  BY <1>0 DEF PowerLoss, Labels, Ends, TypeOK
<1>2. /\ hung' = {} /\ lock' = [t \in Targets |-> NoOne] /\ armed' = [p \in Remuxes |-> {}]
      /\ \A t \in Targets : lock'[t] = NoOne
      /\ \A p \in Remuxes : armed'[p] = {} /\ (p \in before' <=> pc[p] # "start")
      /\ before' \subseteq Remuxes /\ ours' \in [Remuxes -> Files \cup {NoFile}]
  BY DEF PowerLoss
<1>3. /\ dir' \in [Names -> Files \cup {NoFile}]
      /\ \A n \in Names : dir'[n] \in {dir[n]} \cup left[n]
  <2>1. PICK back \in SUBSET UNION {{n} \X (left[n] \ {dir[n]}) : n \in Names} :
           dir' = [n \in Names |-> IF \E f \in left[n] : <<n, f>> \in back
                                  THEN CHOOSE f \in left[n] : <<n, f>> \in back ELSE dir[n]]
    BY DEF PowerLoss
  <2>2. ASSUME NEW n \in Names PROVE dir'[n] \in {dir[n]} \cup left[n]
    BY <2>1
  <2>3. \A n \in Names : left[n] \subseteq Files \cup {NoFile} /\ dir[n] \in Files \cup {NoFile}
    BY <1>0 DEF TypeOK
  <2>4. \A n \in Names : dir'[n] \in Files \cup {NoFile}
    BY <2>2, <2>3
  <2> QED BY <2>1, <2>2, <2>4
<1>4. /\ left' \in [Names -> SUBSET (Files \cup {NoFile})]
      /\ \A n \in Names : left'[n] = {dir'[n]}
  BY <1>3 DEF PowerLoss
<1>5. TypeInv'
  <2>1. whole' \subseteq Files
    BY <1>0 DEF PowerLoss, TypeOK
  <2>2. lock' \in [Targets -> Remuxes \cup {NoOne}] /\ armed' \in [Remuxes -> SUBSET Names]
    BY <1>2
  <2> QED BY <1>0, <1>1, <1>2, <1>3, <1>4, <2>1, <2>2 DEF TypeInv, TypeOK
<1>6. ASSUME NEW p \in Remuxes PROVE Local(p)'
  <2>0. LockOK(p) /\ ArmedOK(p) /\ ReportOK(p) /\ GuardedOK(p) /\ BytesOK(p)
    BY InvFacts
  <2>1. pc'[p] \in {"start"} \cup Ends /\ pc'[p] \notin Holding
    BY <1>1 DEF Ends, Holding, Workers, Keeping
  <2>2. LockOK(p)' /\ ArmedOK(p)'
    BY <1>2, <2>1 DEF LockOK, Works, ArmedOK, Holding
  <2>3. ReportOK(p)'
    BY <1>0, <1>1, <1>2, <2>0, <2>1 DEF ReportOK, Ends
  <2>4. OwnOK(p)' /\ BytesOK(p)'
    <3>1. LandingFile(p)' = LandingFile(p) /\ whole' = whole \cap synced
      BY <1>0, SameJobs DEF PowerLoss
    <3> QED BY <1>0, <2>0, <2>1, <3>1 DEF OwnOK, BytesOK, Copying, Checked, Ends, Keeping
  <2>5. GuardedOK(p)'
    <3>1. Landing(p)' = Landing(p)
      BY <1>0, SameJobs
    <3>2. p \notin before' => pc'[p] = "start" /\ pc[p] = "start"
      BY <1>1, <1>2
    <3>3. pc'[p] = "start" => pc[p] = "start"
      BY <1>1
    <3>4. ASSUME pc[p] = "start", NEW n \in {Stage(p), Landing(p)}
          PROVE  dir'[n] \notin {Muxed(p), Copied(p)} /\ left'[n] = {dir'[n]}
      <4>1. n \in Names /\ left[n] \cap {Muxed(p), Copied(p)} = {}
        BY <2>0, <3>4, OwnDiffer DEF GuardedOK
      <4>2. dir[n] \notin {Muxed(p), Copied(p)}
        BY <2>0, <3>4 DEF GuardedOK, ArmedOK, ReportOK, Holding, Workers, Keeping, Ends
      <4> QED BY <1>3, <1>4, <4>1, <4>2
    <3> QED BY <3>1, <3>2, <3>3, <3>4 DEF GuardedOK, Muxed, Copied, Stage
  <2> QED BY <2>2, <2>3, <2>4, <2>5 DEF Local
<1>7. TargetInv'
  <2>1. Landable' = Landable
    BY <1>0, SameJobs DEF Landable
  <2>2. whole' = whole \cap synced
    BY DEF PowerLoss
  <2>3. \A t \in Targets : /\ Target(t) \in Names
                           /\ {dir'[Target(t)]} \cup left'[Target(t)] \subseteq {dir[Target(t)]} \cup left[Target(t)]
    BY <1>3, <1>4, NamesIn
  <2>4. \A t \in Targets :
           {dir'[Target(t)]} \cup left'[Target(t)] \subseteq (whole' \cap synced') \cup {NoFile}
    BY <1>0, <2>2, <2>3 DEF TargetInv, TargetWhole
  <2>5. TargetWhole'
    BY <2>4 DEF TargetWhole
  <2>6. \A t \in Targets : {dir'[Target(t)]} \cup left'[Target(t)] \subseteq Landable \cup {NoFile}
    BY <1>0, <2>3 DEF TargetInv
  <2>7. Foreign \subseteq whole' \cap synced'
    BY <1>0, <2>2 DEF TargetInv
  <2>8. \A n \in Public : left'[n] \subseteq {dir'[n]}
    BY <1>4, NamesIn
  <2> QED BY <2>1, <2>5, <2>6, <2>7, <2>8 DEF TargetInv
<1>8. \A p \in Remuxes : ~Claims(p)' /\ pc'[p] \notin Keeping
  <2>1. ASSUME NEW p \in Remuxes PROVE ~(said'[p] = "kept" /\ p \notin before')
    BY <1>0, <1>2, InvFacts DEF ReportOK, Ends
  <2> QED BY <1>1, <2>1 DEF Claims, Keeping
<1>9. KeptInv' /\ CaughtInv'
  BY <1>8 DEF KeptInv, CaughtInv, Keeping
<1> QED BY <1>5, <1>6, <1>7, <1>9 DEF IInv

\* Another program's file appears under a public name, whole and for good.
LEMMA ForeignWriteInv == ASSUME IInv, ForeignWrite PROVE IInv'
<1>0. /\ TypeInv /\ TypeOK /\ TargetInv
      /\ UNCHANGED <<job, pc, said, armed, tries, ours, landed, whole, synced, lock, stopped, hung, before>>
      /\ foreign' = TRUE
  BY DEF IInv, TypeInv, ForeignWrite, progress, bytes
<1>1. PICK n \in Public, f \in Strange :
         /\ dir' = [dir EXCEPT ![n] = f] /\ left' = [left EXCEPT ![n] = {f}]
         /\ caught' = caught \cup
               {p \in Remuxes : /\ pc[p] = "removing" \/ (pc[p] = "reserved" /\ Empty(f))
                                /\ KeptName(p) = n}
  BY DEF ForeignWrite
<1>2. /\ n \in Names /\ f \in Foreign /\ Foreign \subseteq Files
      /\ \A t : n # Beside(t) /\ n # Stage(t)
  BY NamesIn, FileFacts, PublicApart
<1>3. /\ dir' \in [Names -> Files \cup {NoFile}] /\ dir'[n] = f
      /\ \A m \in Names \ {n} : dir'[m] = dir[m]
  BY <1>0, <1>1, <1>2 DEF TypeOK
<1>4. /\ left' \in [Names -> SUBSET (Files \cup {NoFile})] /\ left'[n] = {f}
      /\ \A m \in Names \ {n} : left'[m] = left[m]
  BY <1>0, <1>1, <1>2 DEF TypeOK
<1>5. TypeInv'
  <2>1. caught' \subseteq Remuxes
    BY <1>0, <1>1 DEF TypeOK
  <2> QED BY <1>0, <1>3, <1>4, <2>1 DEF TypeInv, TypeOK
<1>6. ASSUME NEW p \in Remuxes PROVE Local(p)'
  <2>1. /\ dir'[Stage(p)] = dir[Stage(p)] /\ dir'[Landing(p)] = dir[Landing(p)] /\ dir'[MuxName(p)] = dir[MuxName(p)]
        /\ left'[Stage(p)] = left[Stage(p)] /\ left'[Landing(p)] = left[Landing(p)]
    BY <1>2, <1>3, <1>4, OwnDiffer DEF Landing
  <2>2. Landing(p)' = Landing(p) /\ MuxName(p)' = MuxName(p) /\ LandingFile(p)' = LandingFile(p)
    BY <1>0, SameJobs
  <2>3. LockOK(p)' /\ ArmedOK(p)' /\ ReportOK(p)'
    BY <1>0, <2>2, InvFacts DEF LockOK, Works, ArmedOK, ReportOK
  <2>4. OwnOK(p)' /\ BytesOK(p)'
    BY <1>0, <2>1, <2>2, InvFacts DEF OwnOK, BytesOK, Muxed, Copied
  <2>5. GuardedOK(p)'
    BY <1>0, <2>1, <2>2, InvFacts DEF GuardedOK, Muxed, Copied, Stage
  <2> QED BY <2>3, <2>4, <2>5 DEF Local
<1>7. TargetInv'
  <2>1. Landable' = Landable /\ Foreign \subseteq Landable
    BY <1>0, SameJobs DEF Landable
  <2>2. \A m \in Public : \/ dir'[m] = dir[m] /\ left'[m] = left[m]
                          \/ dir'[m] = f /\ left'[m] = {f}
    BY <1>3, <1>4, NamesIn
  <2>3. \A t \in Targets :
           {dir'[Target(t)]} \cup left'[Target(t)] \subseteq (whole' \cap synced') \cup {NoFile}
    BY <1>0, <1>2, <2>2, NamesIn DEF TargetInv, TargetWhole
  <2>4. TargetWhole'
    BY <2>3 DEF TargetWhole
  <2>5. \A t \in Targets : {dir'[Target(t)]} \cup left'[Target(t)] \subseteq Landable \cup {NoFile}
    BY <1>0, <1>2, <2>1, <2>2, NamesIn DEF TargetInv
  <2>6. \A m \in Public : dir'[m] \in Foreign => left'[m] \subseteq {dir'[m]}
    BY <1>0, <2>2 DEF TargetInv
  <2> QED BY <1>0, <2>1, <2>4, <2>5, <2>6 DEF TargetInv
<1>8. KeptInv'
  <2>1. \A p \in Remuxes : LandingFile(p)' = LandingFile(p)
    BY <1>0, SameJobs
  <2>2. \A p \in Remuxes : (Claims(p)' <=> Claims(p)) /\ KeptFile(p)' = KeptFile(p)
    BY <1>0, <2>1 DEF Claims, KeptFile, Placeholder
  <2>3. \A p \in Remuxes : Claims(p) => KeptName(p) \in Names
    BY <1>0, OwnKept DEF IInv, KeptInv
  <2>4. \A p \in Remuxes : Claims(p) => dir'[KeptName(p)] \in {dir[KeptName(p)]} \cup Foreign
    BY <1>2, <1>3, <2>3
  <2>5. \A p \in Remuxes : tries'[p] = tries[p]
    BY <1>0
  <2> QED BY <1>0, <2>2, <2>4, <2>5, ClaimsStay
<1>9. CaughtInv'
  <2>1. \A p \in Remuxes : KeptName(p)' = KeptName(p)
    BY <1>0, SameJobs
  <2>2. ASSUME NEW p \in Remuxes, p \notin caught'
        PROVE  /\ pc[p] = "reserved" => ~Alike(dir'[KeptName(p)])
               /\ pc[p] \in {"keeping", "unkeep"} => ~Alike(ours[p])
               /\ pc[p] = "removing" => dir'[KeptName(p)] \notin Foreign
    <3>1. /\ p \notin caught
          /\ pc[p] = "reserved" => ~Alike(dir[KeptName(p)])
          /\ pc[p] \in {"keeping", "unkeep"} => ~Alike(ours[p])
          /\ pc[p] = "removing" => dir[KeptName(p)] \notin Foreign
      BY <1>1, <2>2 DEF IInv, CaughtInv
    <3>2. pc[p] \in Keeping => KeptName(p) \in Names
      BY KeepingFacts
    <3>3. CASE KeptName(p) = n
      BY <1>1, <1>3, <2>2, <3>1, <3>3 DEF Alike
    <3>4. CASE KeptName(p) # n
      BY <1>3, <3>1, <3>2, <3>4 DEF Keeping
    <3> QED BY <3>3, <3>4
  <2> QED BY <1>0, <2>1, <2>2 DEF CaughtInv, Alike, Empty, Foreign
<1> QED BY <1>5, <1>6, <1>7, <1>8, <1>9 DEF IInv

LEMMA InitInv == Init => IInv
<1> SUFFICES ASSUME Init PROVE IInv
  OBVIOUS
<1>1. PICK old \in SUBSET Targets :
         dir = [n \in Names |-> IF \E t \in old : n = Target(t) THEN <<n[1], "before">> ELSE NoFile]
  BY DEF Init
<1>2. \A t \in Targets : dir[Target(t)] \in Foreign \cup {NoFile}
  <2> SUFFICES ASSUME NEW t \in Targets PROVE dir[Target(t)] \in Foreign \cup {NoFile}
    OBVIOUS
  <2>1. Target(t) \in Names /\ Target(t)[1] = t
    BY NamesIn DEF Target
  <2>2. <<t, "before">> \in Foreign
    BY FileFacts
  <2> QED BY <1>1, <2>1, <2>2
<1>3. \A n \in Names : (\A t : n # Target(t)) => dir[n] = NoFile
  BY <1>1
<1>4. dir \in [Names -> Files \cup {NoFile}]
  <2>1. \A n \in Names : dir[n] \in Files \cup {NoFile}
    BY <1>2, <1>3, FileFacts, <1>1
  <2> QED BY <1>1, <2>1
<1>5. TypeInv
  <2>1. /\ job \in [Remuxes -> Jobs] /\ pc \in [Remuxes -> Labels]
        /\ said \in [Remuxes -> {"none", "exists", "failed", "halted", "kept", "done"}]
        /\ armed \in [Remuxes -> SUBSET Names]
        /\ lock \in [Targets -> Remuxes \cup {NoOne}]
    BY AskedAssumption DEF Init, Labels
  <2>2. tries \in [Remuxes -> 0..Shorts + 1]
    BY ShortsAssumption DEF Init
  <2>3. left \in [Names -> SUBSET (Files \cup {NoFile})]
    <3>1. left = [n \in Names |-> {dir[n]}]
      BY DEF Init
    <3>2. \A n \in Names : {dir[n]} \in SUBSET (Files \cup {NoFile})
      BY <1>4
    <3> QED BY <3>1, <3>2
  <2>5. ours \in [Remuxes -> Files \cup {NoFile}]
    BY DEF Init
  <2>6. whole \subseteq Files /\ synced \subseteq Files
    BY FileFacts DEF Init
  <2>7. /\ landed \subseteq Remuxes /\ caught \subseteq Remuxes /\ before \subseteq Remuxes
        /\ stopped \subseteq Remuxes /\ hung \subseteq Remuxes /\ foreign \in BOOLEAN
    BY DEF Init
  <2>4. \A t \in Targets : lock[t] = NoOne
    BY DEF Init
  <2> QED BY <1>4, <2>1, <2>2, <2>3, <2>4, <2>5, <2>6, <2>7 DEF TypeInv, TypeOK
<1>6. ASSUME NEW p \in Remuxes PROVE Local(p)
  <2>1. /\ pc[p] = "start" /\ said[p] = "none" /\ armed[p] = {} /\ landed = {} /\ hung = {} /\ before = {}
    BY DEF Init
  <2>2. LockOK(p) /\ ArmedOK(p) /\ ReportOK(p) /\ OwnOK(p) /\ BytesOK(p)
    BY <2>1 DEF LockOK, Works, ArmedOK, ReportOK, OwnOK, BytesOK, Holding, Workers, Copying, Checked, Ends, Keeping
  <2>3. GuardedOK(p)
    <3>1. \A n \in {Stage(p), Landing(p)} : n \in Names /\ (\A t : n # Target(t))
      BY <1>5, Own, NamesIn, NameFacts DEF TypeInv, Landing
    <3>2. \A n \in {Stage(p), Landing(p)} : dir[n] = NoFile /\ left[n] = {NoFile}
      BY <1>3, <3>1 DEF Init
    <3> QED BY <3>2, FileFacts DEF GuardedOK
  <2> QED BY <2>2, <2>3 DEF Local
<1>7. TargetInv
  <2>1. whole = Foreign /\ synced = Foreign /\ \A n \in Public : left[n] = {dir[n]}
    BY NamesIn DEF Init
  <2>2. TargetWhole
    BY <1>2, <2>1, NamesIn DEF TargetWhole
  <2>3. Foreign \subseteq Landable
    BY DEF Landable
  <2> QED BY <1>2, <2>1, <2>2, <2>3, NamesIn DEF TargetInv
<1>8. KeptInv /\ CaughtInv
  BY DEF Init, KeptInv, CaughtInv, Claims, Keeping
<1> QED BY <1>5, <1>6, <1>7, <1>8 DEF IInv

LEMMA StutterInv == ASSUME IInv, UNCHANGED vars PROVE IInv'
<1>1. /\ UNCHANGED <<job, pc, said, armed, tries, landed, dir, left, whole, synced, lock, stopped, hung, foreign>>
      /\ UNCHANGED <<ours, caught, before>>
  BY DEF vars, progress, folder, bytes, world
<1>2. TypeInv'
  BY <1>1 DEF IInv, TypeInv, TypeOK
<1>3. ASSUME NEW p \in Remuxes PROVE Local(p)'
  <2>1. Landing(p)' = Landing(p) /\ MuxName(p)' = MuxName(p) /\ LandingFile(p)' = LandingFile(p)
    BY <1>1, SameJobs
  <2>2. LockOK(p)' /\ ArmedOK(p)' /\ ReportOK(p)'
    BY <1>1, <2>1, InvFacts DEF LockOK, Works, ArmedOK, ReportOK
  <2>3. OwnOK(p)' /\ GuardedOK(p)' /\ BytesOK(p)'
    BY <1>1, <2>1, InvFacts DEF OwnOK, GuardedOK, BytesOK, Muxed, Copied, Stage
  <2> QED BY <2>2, <2>3 DEF Local
<1>4. TargetInv'
  BY <1>1, TargetsStay
<1>5. KeptInv' /\ CaughtInv'
  <2>1. \A p \in Remuxes : LandingFile(p)' = LandingFile(p)
    BY <1>1, SameJobs
  <2>2. \A p \in Remuxes : Claims(p)' =>
           Claims(p) /\ tries'[p] = tries[p] /\ KeptFile(p)' = KeptFile(p)
    BY <1>1, <2>1 DEF Claims, KeptFile, Placeholder
  <2> QED BY <1>1, <2>2, ClaimsKept
<1> QED BY <1>2, <1>3, <1>4, <1>5 DEF IInv

LEMMA StepInv == ASSUME IInv, [Next]_vars PROVE IInv'
<1>1. ASSUME NEW p \in Remuxes, Step(p) PROVE IInv'
  BY <1>1, StartInv, AcquireInv, ClearInv, MuxOpensInv, MuxDoneInv, DurableSyncInv, VerifyInv,
     CopyClearInv, CopyDoneInv, RecheckInv, CommitInv, LandInv, ReserveInv, IdentifyInv, KeepAtInv,
     UnkeepInv, UnreserveInv, HaltsInv, TimesOutInv, GiveUpInv, UnwindInv DEF Step
<1>2. ASSUME NEW p \in Remuxes, Fails(p) \/ Hang(p) \/ Stop(p) \/ Kill(p) PROVE IInv'
  BY <1>2, FailsInv, HangInv, StopInv, KillInv
<1> QED BY <1>1, <1>2, PowerLossInv, ForeignWriteInv, StutterInv DEF Next

LEMMA InvAlways == Spec => []IInv
  BY InitInv, StepInv, PTL DEF Spec

----------------------------------------------------------------------------
(* The theorems. *)

\* The variables keep their types, and who holds a lock is at work under it.
THEOREM TypeCorrect == Spec => []TypeOK
<1>1. IInv => TypeOK
  BY DEF IInv, TypeInv
<1> QED BY <1>1, InvAlways, PTL

\* A target is always a whole file that outlives a power loss: whatever is renamed
\* over it was synced and then verified, under the name only its owner changes.
THEOREM TargetWholeAlways == Spec => []TargetWhole
<1>1. IInv => TargetWhole
  BY DEF IInv, TargetInv
<1> QED BY <1>1, InvAlways, PTL

\* From mux to rename a remux works on its own file: the lock keeps the other
\* runs of its target out until its guards have removed what it left.
THEOREM OwnFileAlways == Spec => []OwnFile
<1>1. ASSUME IInv, NEW p \in Remuxes PROVE OwnOK(p)
  BY <1>1 DEF IInv, Local
<1>2. ASSUME IInv PROVE OwnFile
  <2>1. ASSUME NEW p \in Remuxes
        PROVE  /\ pc[p] \in {"sync", "verify"} => dir[MuxName(p)] = Muxed(p)
               /\ pc[p] \in {"copy", "copysync", "copyverify"} => dir[Landing(p)] = Copied(p)
               /\ pc[p] \in {"recheck", "commit", "land", "keep"} \cup Keeping =>
                     dir[Landing(p)] = LandingFile(p)
    BY <1>1, <1>2 DEF OwnOK, Copying, Checked
  <2> QED BY <2>1, Zenon DEF OwnFile
<1> QED BY <1>2, InvAlways, PTL

\* A file reported as kept is there under its name until the power fails: a
\* placeholder is one remux's from its exclusive creation on.  Wherever the name
\* leads to the file, then or later, the file is whole and its bytes are durable.
THEOREM KeptStaysAlways == Spec => []KeptStays
<1>1. ASSUME IInv, NEW p \in Remuxes, said[p] = "kept"
      PROVE  /\ p \notin before => dir[KeptName(p)] \in {LandingFile(p)} \cup Foreign
             /\ LandingFile(p) \in whole \cap synced
  <2>1. pc[p] \notin Keeping
    BY <1>1, InvFacts DEF ReportOK, Ends, Keeping
  <2>2. p \notin before => dir[KeptName(p)] \in {LandingFile(p)} \cup Foreign
    BY <1>1, <2>1 DEF IInv, KeptInv, KeptFile, Claims
  <2>3. LandingFile(p) \in whole \cap synced
    BY <1>1, InvFacts DEF BytesOK
  <2> QED BY <2>2, <2>3
<1>2. IInv => KeptStays
  BY <1>1 DEF KeptStays
<1> QED BY <1>2, InvAlways, PTL

\* Done is reported by the remuxes that renamed their file, and by no other.
THEOREM ResultTrueAlways == Spec => []ResultTrue
<1>1. IInv => ResultTrue
  BY DEF IInv, Local, ReportOK, ResultTrue
<1> QED BY <1>1, InvAlways, PTL

\* A remux that returns, on whatever way out, has left no lock, and no partial
\* file but what a later power loss brings back.
THEOREM NothingLeftAlways == Spec => []NothingLeft
<1>1. ASSUME IInv, NEW p \in Remuxes, pc[p] = "ended"
      PROVE  /\ p \notin before =>
                   \A n \in {Stage(p), Landing(p)} : dir[n] \notin {Muxed(p), Copied(p)}
             /\ lock[job[p].target] # p
  <2>1. pc[p] # "dead" /\ pc[p] \notin Holding
    BY <1>1 DEF Holding, Workers, Keeping
  <2>2. armed[p] = {} /\ GuardedOK(p) /\ TypeOK
    BY <1>1, <2>1, InvFacts DEF ArmedOK
  <2>3. p \notin before =>
           \A n \in {Stage(p), Landing(p)} : dir[n] \notin {Muxed(p), Copied(p)}
    BY <2>1, <2>2 DEF GuardedOK
  <2>4. lock[job[p].target] # p
    BY <2>1, <2>2, Own, NoOneAssumption DEF TypeOK
  <2> QED BY <2>3, <2>4
<1>2. IInv => NothingLeft
  BY <1>1 DEF NothingLeft
<1> QED BY <1>2, InvAlways, PTL

\* What may become of another program's file under a public name.
Given(n) ==
    \/ foreign' # foreign
    \/ \E p \in Remuxes : n = T(p) /\ job[p].replace /\ p \in landed' \ landed
    \/ \E p \in Remuxes : said'[p] = "kept" /\ said[p] # "kept" /\ n = KeptName(p)
    \/ \E p \in caught : pc[p] = "removing" /\ n = KeptName(p)

LEMMA StepSpares ==
    ASSUME IInv, NEW q \in Remuxes, Step(q), NEW n \in Public, dir[n] \in Foreign, dir'[n] # dir[n]
    PROVE  Given(n)
<1>0. n \in Names /\ n # Landing(q) /\ n # Stage(q) /\ n # MuxName(q) /\ TypeOK
  BY PublicApart, NamesIn, OwnDiffer, InvFacts DEF Landing
<1>1. dir \in [Names -> Files \cup {NoFile}]
  BY <1>0 DEF TypeOK
<1>2. CASE Clear(q) \/ MuxOpens(q) \/ CopyClear(q)
  <2>1. \/ dir' = [dir EXCEPT ![MuxName(q)] = NoFile]
        \/ dir' = [dir EXCEPT ![MuxName(q)] = Muxed(q)]
        \/ dir' = [dir EXCEPT ![Landing(q)] = Copied(q)]
    BY <1>2 DEF Clear, MuxOpens, CopyClear, Removed
  <2> QED BY <1>0, <1>1, <2>1
<1>3. CASE Unwind(q)
  <2>1. PICK name \in armed[q] : dir' = [dir EXCEPT ![name] = NoFile]
    BY <1>3 DEF Unwind, Removed, folder
  <2>2. name # n
    BY <1>0, InvFacts DEF ArmedOK
  <2> QED BY <1>0, <1>1, <2>1, <2>2
<1>4. CASE Land(q)
  <2>1. dir' = Moved(Landing(q), T(q)) /\ landed' = landed \cup {q} /\ MayLand(q)
    BY <1>4 DEF Land, folder
  <2>2. n = T(q)
    BY <1>0, <2>1 DEF Moved, TypeOK
  <2>3. job[q].replace
    BY <2>1, <2>2, FileFacts DEF MayLand, Present
  <2>4. q \notin landed
    BY <1>4, InvFacts DEF Land, At, ReportOK, Ends
  <2> QED BY <2>1, <2>2, <2>3, <2>4 DEF Given
<1>5. CASE Reserve(q)
  <2>1. dir' = [dir EXCEPT ![KeptName(q)] = Placeholder(q)] /\ Reserved(q)
    BY <1>5 DEF Reserve, folder
  <2>2. n # KeptName(q)
    BY <2>1, FileFacts DEF Reserved, Present
  <2> QED BY <1>0, <1>1, <2>1, <2>2
<1>6. CASE KeepAt(q)
  <2>1. said[q] = "none"
    BY <1>6, InvFacts DEF KeepAt, At, ReportOK, Ends
  <2>2. dir' = Moved(Landing(q), KeptName(q)) /\ said' = [said EXCEPT ![q] = "kept"]
    BY <1>6 DEF KeepAt, folder
  <2>3. n = KeptName(q)
    BY <1>0, <2>2 DEF Moved, TypeOK
  <2>4. said'[q] = "kept"
    BY <1>0, <2>2 DEF TypeOK
  <2> QED BY <2>1, <2>3, <2>4 DEF Given
<1>7. CASE Unreserve(q)
  <2>1. pc[q] = "removing" /\ dir' = [dir EXCEPT ![KeptName(q)] = NoFile]
    BY <1>7 DEF Unreserve, At, Removed
  <2>2. n = KeptName(q)
    BY <1>0, <1>1, <2>1
  <2>3. q \in caught
    BY <2>1, <2>2 DEF IInv, CaughtInv
  <2> QED BY <2>1, <2>2, <2>3 DEF Given
<1>8. CASE UNCHANGED dir
  BY <1>8
<1> QED BY <1>2, <1>3, <1>4, <1>5, <1>6, <1>7, <1>8
        DEF Step, Start, Acquire, MuxDone, DurableSync, Verify, CopyDone, Recheck, Commit,
            Identify, Unkeep, Halts, AcquireTimesOut, GiveUp, folder

LEMMA NextSpares ==
    ASSUME IInv, [Next]_vars, NEW n \in Public, dir[n] \in Foreign, dir'[n] # dir[n]
    PROVE  Given(n)
<1>1. CASE PowerLoss
  <2>1. n \in Names /\ left[n] \subseteq {dir[n]}
    BY NamesIn DEF IInv, TargetInv
  <2>2. PICK back \in SUBSET UNION {{m} \X (left[m] \ {dir[m]}) : m \in Names} :
           dir' = [m \in Names |-> IF \E f \in left[m] : <<m, f>> \in back
                                  THEN CHOOSE f \in left[m] : <<m, f>> \in back ELSE dir[m]]
    BY <1>1 DEF PowerLoss
  <2>3. dir'[n] \in {dir[n]} \cup left[n]
    BY <2>1, <2>2
  <2> QED BY <2>1, <2>3
<1>2. CASE ForeignWrite
  BY <1>2 DEF ForeignWrite, Given
<1>3. CASE \E p \in Remuxes : Step(p)
  BY <1>3, StepSpares
<1>4. CASE UNCHANGED dir
  BY <1>4
<1> QED BY <1>1, <1>2, <1>3, <1>4 DEF Next, Fails, Hang, Stop, Kill, vars, folder

\* Another program's file is replaced by a remux that was asked to, or where it
\* reserved a name to keep its own.  It is removed by no power loss, and by a
\* remux only if it came where that remux could not tell it from its placeholder.
THEOREM ForeignStaysAlways == Spec => ForeignStays
<1>1. ASSUME IInv, [Next]_vars
      PROVE  [\A n \in Public : dir[n] \in Foreign /\ dir'[n] # dir[n] =>
                 \/ foreign' # foreign
                 \/ \E p \in Remuxes : n = T(p) /\ job[p].replace /\ p \in landed' \ landed
                 \/ \E p \in Remuxes : said'[p] = "kept" /\ said[p] # "kept" /\ n = KeptName(p)
                 \/ \E p \in caught : pc[p] = "removing" /\ n = KeptName(p)]_vars
  BY <1>1, NextSpares DEF Given
<1> QED BY <1>1, InvAlways, PTL DEF Spec, ForeignStays
=============================================================================
