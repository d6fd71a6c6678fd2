----------------------------- MODULE BuildProofs -----------------------------
(***************************************************************************)
(* What the build driver keeps, for every manifest, number of attempts and *)
(* kind of artifact: the types, that only signed images become snapshots,  *)
(* one final result for each flavor, one upload at a time, and an AMI with *)
(* the image and the measurements of its own flavor, past every gate, but  *)
(* for what a command that was left running brings in.                     *)
(*                                                                         *)
(* Four invariants, each on top of the last: BuildInv (types, places and   *)
(* signatures), LedgerInv (the results), UploadInv (the uploads) and       *)
(* OwnInv (whose artifact it is, which needs that failures are final).     *)
(* Then, while no pull (no verification) runs on unwatched, OwnTree (and   *)
(* OwnIdentity); and Bounded, for the numbers that each step lowers.       *)
(***************************************************************************)
EXTENDS BuildProperties, TLAPS, FiniteSetTheorems

Signed(f) == kind[f] # "unsigned"

\* What each position of the driver has behind it, beyond the types.
Places ==
  /\ phase \in {"connect", "install"} => step = "reset" /\ idx = 1
  /\ phase = "pass1" => step \in Command
  /\ phase = "pass2" => step \in Call
  /\ phase = "pass1" /\ step = "upload" => Current \in DOMAIN snapshots
  /\ phase = "pass1" /\ step \in {"find", "upload"} => measured \in Flavor
  /\ \A a \in abandoned : a[1] = "upload" => a[2] \in DOMAIN snapshots
  /\ \A i \in DOMAIN captured : captured[i].flavor \in DOMAIN snapshots

\* Whatever can bring an image into the shared directory has passed gh.
Clean ==
  /\ tree.image # None => Signed(tree.image)
  /\ \A a \in abandoned : a[1] = "pull" => Signed(a[2])
  /\ phase = "pass1" /\ step \in {"identity", "pull"} => Signed(Current)
  /\ OnlySigned

BuildInv == BuildTypeOK /\ Places /\ Clean

\* Recording a result keeps the results well-typed.
LEMMA PutResult ==
  ASSUME BuildTypeOK, NEW x \in Flavor, NEW r \in Result, results' = Put(results, x, r)
  PROVE  /\ DOMAIN results' \subseteq Flavor
         /\ \A g \in DOMAIN results' : results'[g] \in Result
  <1>1. /\ DOMAIN results' = DOMAIN results \cup {x}
        /\ results'[x] = r
        /\ \A z \in DOMAIN results : z # x => results'[z] = results[z]
    BY DEF Put
  <1> QED
    BY <1>1 DEF BuildTypeOK

\* Stopping uploads changes the state of snapshots only.
LEMMA StoppedEffect ==
  ASSUME NEW fs, BuildTypeOK
  PROVE  /\ DOMAIN Stopped(fs) = DOMAIN snapshots
         /\ \A f \in DOMAIN snapshots :
              /\ Stopped(fs)[f] \in [image : Flavor, state : {"uploading", "complete", "error"}]
              /\ Stopped(fs)[f].image = snapshots[f].image
  BY DEF Stopped, BuildTypeOK

\* Recording the state of one snapshot keeps the others and every image.
LEMMA StateEffect ==
  ASSUME BuildTypeOK, NEW f \in DOMAIN snapshots, NEW s \in {"uploading", "complete", "error"},
         snapshots' = [snapshots EXCEPT ![f].state = s]
  PROVE  /\ DOMAIN snapshots' = DOMAIN snapshots
         /\ \A g \in DOMAIN snapshots :
              /\ snapshots'[g] \in [image : Flavor, state : {"uploading", "complete", "error"}]
              /\ snapshots'[g].image = snapshots[g].image
  BY DEF BuildTypeOK

\* Where the loop goes next: to a wipe or to the first captured snapshot.
LEMMA AdvanceEffect ==
  ASSUME BuildTypeOK, phase \in {"pass1", "reconnect", "kill"}, Advance
  PROVE  /\ phase' \in {"pass1", "pass2"}
         /\ idx' \in Nat \ {0}
         /\ phase' = "pass1" => step' = "reset" /\ idx' \in DOMAIN Manifest
         /\ phase' = "pass2" => step' = "wait"
  BY BuildAssumption DEF BuildTypeOK, Advance

\* The flavor under way is one of the manifest's.
LEMMA CurrentIsFlavor ==
  ASSUME BuildTypeOK, phase \in {"pass1", "reconnect", "kill"}
  PROVE  Current \in Flavor
  BY BuildAssumption DEF BuildTypeOK, Current

\* The shared files stay well-typed and hold nothing that was not signed,
\* whichever command acts for a flavor that is.
LEMMA TreeEffect ==
  ASSUME BuildTypeOK, Clean, NEW c, NEW f \in Flavor, c = "pull" => Signed(f)
  PROVE  /\ TreeAfter(c, f) \in [image : Flavor \cup {None}, pcr : Flavor \cup {None}]
         /\ TreeAfter(c, f).image # None => Signed(TreeAfter(c, f).image)
         /\ AttestationAfter(c, f) \in Flavor \cup {None}
  BY DEF BuildTypeOK, Clean, TreeAfter, AttestationAfter, Empty

\* The images of the shared directory, of EBS and of what runs on are in order
\* after the step when they were before it.
HostInOrder ==
  /\ tree' \in [image : Flavor \cup {None}, pcr : Flavor \cup {None}]
  /\ tree'.image # None => Signed(tree'.image)
  /\ attestation' \in Flavor \cup {None}
  /\ abandoned' \subseteq ranOn' /\ ranOn' \subseteq Stray \X Flavor
  /\ \A a \in abandoned' :
       /\ a[1] = "pull" => Signed(a[2])
       /\ a[1] = "upload" => a[2] \in DOMAIN snapshots
  /\ DOMAIN snapshots' = DOMAIN snapshots
  /\ \A f \in DOMAIN snapshots :
       /\ snapshots'[f] \in [image : Flavor, state : {"uploading", "complete", "error"}]
       /\ snapshots'[f].image = snapshots[f].image

\* What the driver has concluded so far, after the step.
RecordsInOrder ==
  /\ DOMAIN results' \subseteq Flavor
  /\ \A f \in DOMAIN results' : results'[f] \in Result
  /\ captured' \in Seq([flavor : Flavor, pcr : Flavor])
  /\ \A i \in DOMAIN captured' : captured'[i].flavor \in DOMAIN snapshots
  /\ amis' \subseteq [flavor : Flavor, image : Flavor, pcr : Flavor]
  /\ files' \subseteq Flavor

LEMMA HostUnchanged ==
  ASSUME BuildInv, UNCHANGED <<hostVars, snapshots>>
  PROVE  HostInOrder
  BY DEF BuildInv, BuildTypeOK, Places, Clean, OnlySigned, hostVars, HostInOrder, Signed

LEMMA RecordsUnchanged ==
  ASSUME BuildInv, UNCHANGED <<results, captured, amis, files>>
  PROVE  RecordsInOrder
  BY DEF BuildInv, BuildTypeOK, Places, RecordsInOrder

\* An element of a sequence is in the set the sequence is over.
LEMMA ElementInSet ==
  ASSUME NEW S, NEW s \in Seq(S), NEW i \in DOMAIN s
  PROVE  s[i] \in S
  OBVIOUS

\* No snapshot becomes unsigned by a step that keeps the images.
LEMMA StaysSigned ==
  ASSUME BuildInv, HostInOrder, UNCHANGED kind
  PROVE  /\ OnlySigned'
         /\ (tree.image # None => Signed(tree.image))'
         /\ (\A a \in abandoned : a[1] = "pull" => Signed(a[2]))'
  <1>1. \A f \in DOMAIN snapshots : kind[snapshots[f].image] # "unsigned"
    BY DEF BuildInv, Clean, OnlySigned
  <1>2. OnlySigned'
    BY <1>1 DEF HostInOrder, OnlySigned
  <1>3. (tree.image # None => Signed(tree.image))'
    BY DEF HostInOrder, Signed
  <1>4. (\A a \in abandoned : a[1] = "pull" => Signed(a[2]))'
    <2>1. \A a \in abandoned' : a[1] = "pull" => kind[a[2]] # "unsigned"
      BY DEF HostInOrder, Signed
    <2> QED
      BY <2>1 DEF Signed
  <1> QED
    BY <1>2, <1>3, <1>4

\* Whatever becomes of a command whose link is lost, the host stays in order.
LEMMA UnheardInOrder ==
  ASSUME BuildInv, phase = "pass1", Unheard
  PROVE  HostInOrder
  <1> USE DEF BuildInv
  <1>1. Current \in Flavor /\ step \in Command /\ (step = "pull" => Signed(Current))
    BY CurrentIsFlavor DEF Places, Clean
  <1>2. CASE UNCHANGED <<hostVars, snapshots>>
    BY <1>2, HostUnchanged
  <1>3. CASE /\ step = "upload" /\ UNCHANGED hostVars
             /\ \E s \in {"complete", "error"} :
                  snapshots' = [snapshots EXCEPT ![Current].state = s]
    <2>1. Current \in DOMAIN snapshots
      BY <1>3 DEF Places
    <2> QED
      BY <1>3, <2>1, StateEffect DEF hostVars, BuildTypeOK, Places, Clean, HostInOrder
  <1>4. CASE /\ tree' = TreeAfter(step, Current)
             /\ attestation' = AttestationAfter(step, Current)
             /\ UNCHANGED <<abandoned, ranOn, snapshots>>
    BY <1>1, <1>4, TreeEffect DEF BuildTypeOK, Places, Clean, HostInOrder
  <1>5. CASE /\ step \in Stray
             /\ abandoned' = abandoned \cup {<<step, Current>>}
             /\ ranOn' = ranOn \cup {<<step, Current>>}
             /\ UNCHANGED <<tree, attestation, snapshots>>
    BY <1>1, <1>5 DEF BuildTypeOK, Places, Clean, HostInOrder
  <1> QED
    BY <1>2, <1>3, <1>4, <1>5 DEF Unheard

\* A step that leaves pass 1 between two flavors, or outside it, preserves
\* the invariant when what it changed elsewhere is in order.
LEMMA SettledStep ==
  ASSUME BuildInv, HostInOrder, RecordsInOrder,
         UNCHANGED kind,
         host' \in {"up", "down"}, linked' \in BOOLEAN, killLost' \in BOOLEAN,
         attempt' \in Nat, tool' \in Nat, measured' \in Flavor \cup {None},
         phase' \in Phase \ {"connect", "install"}, step' \in Command \cup Call,
         idx' \in Nat \ {0},
         phase' \in {"pass1", "reconnect", "kill"} => idx' \in DOMAIN Manifest,
         phase' = "pass1" => step' = "reset",
         phase' = "pass2" => step' \in Call
  PROVE  BuildInv'
  <1> USE DEF BuildInv, HostInOrder, RecordsInOrder
  <1>1. BuildTypeOK'
    BY DEF BuildTypeOK
  <1>2. Places'
    BY DEF Places, Command
  <1>3. Clean'
    <2>1. ~(phase' = "pass1" /\ step' \in {"identity", "pull"})
      OBVIOUS
    <2> QED
      BY <2>1, StaysSigned DEF Clean
  <1> QED
    BY <1>1, <1>2, <1>3

LEMMA BuildInit == Init => BuildInv
  <1> SUFFICES ASSUME Init PROVE BuildInv
    OBVIOUS
  <1>1. BuildTypeOK
    <2>1. /\ DOMAIN results = {} /\ DOMAIN snapshots = {}
          /\ captured \in Seq([flavor : Flavor, pcr : Flavor])
      BY DEF Init
    <2>2. /\ phase \in Phase /\ step \in Command \cup Call
          /\ ~(phase \in {"pass1", "reconnect", "kill"})
      BY DEF Init, Phase, Command
    <2>3. tree \in [image : Flavor \cup {None}, pcr : Flavor \cup {None}]
      BY DEF Init, Empty
    <2>4. abandoned = {} /\ ranOn = {} /\ amis = {} /\ files = {}
      BY DEF Init
    <2> QED
      <3>1. /\ kind \in [Flavor -> Kind]
            /\ host \in {"up", "down"}
            /\ attempt \in Nat /\ tool \in Nat /\ idx \in Nat \ {0}
            /\ measured \in Flavor \cup {None} /\ attestation \in Flavor \cup {None}
        BY DEF Init
      <3>2. linked \in BOOLEAN /\ killLost \in BOOLEAN
        BY Zenon DEF Init
      <3> QED
        BY <2>1, <2>2, <2>3, <2>4, <3>1, <3>2 DEF BuildTypeOK
  <1>2. Places
    <2>1. DOMAIN captured = {}
      BY DEF Init
    <2> QED
      BY <2>1 DEF Init, Places, Command
  <1>3. Clean
    <2>1. DOMAIN snapshots = {}
      BY DEF Init
    <2> QED
      BY <2>1 DEF Init, Clean, OnlySigned, Empty
  <1> QED
    BY <1>1, <1>2, <1>3 DEF BuildInv

LEMMA BuildStep == BuildInv /\ [Next]_vars => BuildInv'
  <1> SUFFICES ASSUME BuildInv, [Next]_vars PROVE BuildInv'
    OBVIOUS
  <1> USE DEF BuildInv
  <1>1. CASE UNCHANGED vars
    BY <1>1 DEF vars, driverVars, hostVars, BuildTypeOK, Places, Clean, OnlySigned, Signed, Current
  <1>2. ASSUME Connect \/ ConnectFails \/ Install \/ InstallRetried \/ InstallFails
        PROVE BuildInv'
    <2>1. /\ UNCHANGED <<kind, host, tree, attestation, abandoned, ranOn, snapshots, amis, files, killLost,
                         idx, step, measured, results, captured>>
          /\ phase' \in {"connect", "install", "pass1", "aborted"}
          /\ attempt' \in Nat /\ tool' \in Nat /\ linked' \in BOOLEAN
          /\ phase' # "aborted" => phase \in {"connect", "install"}
      <3>1. CASE Connect
        BY <3>1 DEF Connect, hostVars, BuildTypeOK
      <3>2. CASE ConnectFails
        <4>1. CASE attempt < ConnectAttempts
          BY <3>2, <4>1 DEF ConnectFails, hostVars, BuildTypeOK
        <4>2. CASE ~(attempt < ConnectAttempts)
          BY <3>2, <4>2 DEF ConnectFails, Abort, hostVars, BuildTypeOK
        <4> QED
          BY <4>1, <4>2
      <3>3. CASE Install
        BY <3>3 DEF Install, hostVars, BuildTypeOK
      <3>4. CASE InstallRetried
        <4>1. linked' \in BOOLEAN
          BY <3>4, Zenon DEF InstallRetried, BuildTypeOK
        <4> QED
          BY <3>4, <4>1 DEF InstallRetried, hostVars, BuildTypeOK
      <3>5. CASE InstallFails
        BY <3>5 DEF InstallFails, Abort, hostVars, BuildTypeOK
      <3> QED
        BY <1>2, <3>1, <3>2, <3>3, <3>4, <3>5
    <2> QED
      BY <2>1, BuildAssumption
         DEF BuildTypeOK, Phase, Command, Places, Clean, OnlySigned, Signed, Current
  <1>3. ASSUME RemoteCommand PROVE BuildInv'
    <2> DEFINE f == Current
    <2>1. /\ phase = "pass1" /\ phase' = phase /\ idx' = idx /\ f \in Flavor
          /\ step \in Command \ {"upload"} /\ step' = Following[step] /\ step' \in Command
      BY <1>3, CurrentIsFlavor DEF RemoteCommand, Following, Places, Command
    <2>2. step = "pull" => Signed(f)
      BY <2>1 DEF Clean
    <2>3. /\ tree' \in [image : Flavor \cup {None}, pcr : Flavor \cup {None}]
          /\ tree'.image # None => Signed(tree'.image)
          /\ attestation' \in Flavor \cup {None}
      BY <1>3, <2>1, <2>2, TreeEffect DEF RemoteCommand
    <2>4. /\ measured' \in Flavor \cup {None}
          /\ step \in {"pcr", "find"} => measured' \in Flavor
      <3>1. CASE step = "pcr"
        BY <1>3, <3>1 DEF RemoteCommand, Passes, BuildTypeOK
      <3>2. CASE step # "pcr"
        BY <1>3, <2>1, <3>2 DEF RemoteCommand, Places, BuildTypeOK
      <3> QED
        BY <3>1, <3>2
    <2>5. /\ DOMAIN snapshots \subseteq DOMAIN snapshots' /\ DOMAIN snapshots' \subseteq Flavor
          /\ \A g \in DOMAIN snapshots' :
               /\ snapshots'[g] \in [image : Flavor, state : {"uploading", "complete", "error"}]
               /\ Signed(snapshots'[g].image)
          /\ step = "find" => f \in DOMAIN snapshots'
      <3>1. CASE step = "find"
        <4>1. /\ snapshots' = Put(snapshots, f, [image |-> tree.image, state |-> "uploading"])
              /\ tree.image # None
          BY <1>3, <3>1 DEF RemoteCommand, Passes
        <4>2. tree.image \in Flavor /\ Signed(tree.image)
          BY <4>1 DEF Clean, BuildTypeOK
        <4>3. [image |-> tree.image, state |-> "uploading"]
                \in [image : Flavor, state : {"uploading", "complete", "error"}]
          BY <4>2
        <4> QED
          <5>1. /\ DOMAIN snapshots' = DOMAIN snapshots \cup {f}
                /\ snapshots'[f] = [image |-> tree.image, state |-> "uploading"]
                /\ \A z \in DOMAIN snapshots : z # f => snapshots'[z] = snapshots[z]
            BY <4>1 DEF Put
          <5>2. \A z \in DOMAIN snapshots :
                  /\ z \in Flavor /\ Signed(snapshots[z].image)
                  /\ snapshots[z] \in [image : Flavor, state : {"uploading", "complete", "error"}]
            BY DEF BuildTypeOK, Clean, OnlySigned, Signed
          <5> QED
            BY <5>1, <5>2, <4>2, <4>3, <2>1
      <3>2. CASE step # "find"
        BY <1>3, <3>2 DEF RemoteCommand, BuildTypeOK, Clean, OnlySigned, Signed
      <3> QED
        BY <3>1, <3>2
    <2>6. UNCHANGED <<kind, host, linked, phase, attempt, tool, idx, results, captured, abandoned,
                      ranOn, amis, files, killLost>>
      BY <1>3 DEF RemoteCommand
    <2>7. step' \in {"identity", "pull"} => Signed(f)
      BY <1>3, <2>1 DEF RemoteCommand, Following, Passes, Clean, Signed, Command
    <2>8. /\ step' = "upload" => step = "find"
          /\ step' \in {"find", "upload"} => step \in {"pcr", "find"}
      BY <2>1 DEF Following, Command
    <2>9. BuildTypeOK'
      BY <2>1, <2>3, <2>4, <2>5, <2>6 DEF BuildTypeOK
    <2>10. Places'
      BY <2>1, <2>4, <2>5, <2>6, <2>8 DEF Places, Current
    <2>11. Clean'
      BY <2>1, <2>3, <2>5, <2>6, <2>7 DEF Clean, OnlySigned, Signed, Current
    <2> QED
      BY <2>9, <2>10, <2>11
  <1>4. ASSUME Capture PROVE BuildInv'
    <2>1. phase = "pass1" /\ step = "upload" /\ Current \in Flavor /\ Current \in DOMAIN snapshots
          /\ measured \in Flavor
      BY <1>4, CurrentIsFlavor DEF Capture, Places
    <2>2. HostInOrder
      BY <1>4, <2>1, StateEffect
         DEF Capture, hostVars, BuildTypeOK, Places, Clean, Signed, HostInOrder
    <2>3. /\ captured' \in Seq([flavor : Flavor, pcr : Flavor])
          /\ \A i \in DOMAIN captured' : captured'[i].flavor \in DOMAIN snapshots
      BY <1>4, <2>1 DEF Capture, BuildTypeOK, Places
    <2>4. results' = Put(results, Current, "pass1-ok") /\ UNCHANGED <<amis, files>>
      BY <1>4 DEF Capture
    <2>5. RecordsInOrder
      BY <2>1, <2>3, <2>4, PutResult DEF BuildTypeOK, Result, RecordsInOrder
    <2> QED
      BY <1>4, <2>1, <2>2, <2>5, AdvanceEffect, SettledStep
         DEF Capture, BuildTypeOK, Phase, Command, Call
  <1>5. ASSUME ApplicationFails PROVE BuildInv'
    <2>1. phase = "pass1" /\ Current \in Flavor /\ step \in Command
      BY <1>5, CurrentIsFlavor DEF ApplicationFails, Places
    <2>2. HostInOrder
      <3> SUFFICES ASSUME ~Unheard PROVE HostInOrder
        BY <2>1, UnheardInOrder
      <3>0. /\ tree' \in {tree, TreeAfter(step, Current)}
            /\ attestation' \in {attestation, AttestationAfter(step, Current)}
            /\ \/ step # "upload" /\ UNCHANGED snapshots
               \/ step = "upload" /\ \E s \in {"complete", "error"} :
                    snapshots' = [snapshots EXCEPT ![Current].state = s]
            /\ UNCHANGED <<abandoned, ranOn>>
        BY <1>5 DEF ApplicationFails
      <3>1. step = "pull" => Signed(Current)
        BY <2>1 DEF Clean
      <3>2. /\ tree' \in [image : Flavor \cup {None}, pcr : Flavor \cup {None}]
            /\ tree'.image # None => Signed(tree'.image)
            /\ attestation' \in Flavor \cup {None}
        BY <2>1, <3>0, <3>1, TreeEffect DEF BuildTypeOK, Clean
      <3>3. /\ DOMAIN snapshots' = DOMAIN snapshots
            /\ \A f \in DOMAIN snapshots :
                 /\ snapshots'[f] \in [image : Flavor, state : {"uploading", "complete", "error"}]
                 /\ snapshots'[f].image = snapshots[f].image
        <4>1. CASE step # "upload"
          BY <3>0, <4>1 DEF BuildTypeOK
        <4>2. CASE step = "upload"
          BY <2>1, <3>0, <4>2, StateEffect DEF Places
        <4> QED
          BY <4>1, <4>2
      <3> QED
        BY <3>0, <3>2, <3>3 DEF BuildTypeOK, Places, Clean, HostInOrder
    <2>3. /\ results' = Put(results, Current, "failed-application")
          /\ UNCHANGED <<captured, amis, files>>
      BY <1>5 DEF ApplicationFails
    <2>4. RecordsInOrder
      BY <2>1, <2>3, PutResult DEF BuildTypeOK, Places, Result, RecordsInOrder
    <2> QED
      BY <1>5, <2>1, <2>2, <2>4, AdvanceEffect, SettledStep
         DEF ApplicationFails, BuildTypeOK, Phase, Command, Call
  <1>6. ASSUME MeasurementsRaise PROVE BuildInv'
    <2>1. HostInOrder /\ RecordsInOrder
      BY <1>6, HostUnchanged, RecordsUnchanged DEF MeasurementsRaise, Abort
    <2> QED
      BY <1>6, <2>1, SettledStep DEF MeasurementsRaise, Abort, BuildTypeOK, Phase
  <1>7. ASSUME Interrupted PROVE BuildInv'
    <2>1. phase = "pass1" /\ Current \in Flavor /\ step \in Command
      BY <1>7, CurrentIsFlavor DEF Interrupted, Places
    <2>3. HostInOrder
      BY <1>7, <2>1, UnheardInOrder DEF Interrupted
    <2>4. /\ results' = Put(results, Current, "failed-transport-indeterminate")
          /\ UNCHANGED <<captured, amis, files>>
      BY <1>7 DEF Interrupted
    <2>5. RecordsInOrder
      BY <2>1, <2>4, PutResult DEF BuildTypeOK, Places, Result, RecordsInOrder
    <2> QED
      BY <1>7, <2>1, <2>3, <2>5, SettledStep DEF Interrupted, BuildTypeOK, Phase
  <1>8. ASSUME Reconnect PROVE BuildInv'
    <2>1. HostInOrder /\ RecordsInOrder
      BY <1>8, HostUnchanged, RecordsUnchanged DEF Reconnect
    <2> QED
      BY <1>8, <2>1, SettledStep DEF Reconnect, BuildTypeOK, Phase
  <1>9. ASSUME ReconnectFails PROVE BuildInv'
    <2>1. HostInOrder
      BY <1>9, HostUnchanged DEF ReconnectFails
    <2>2. phase = "reconnect" /\ idx \in DOMAIN Manifest
      BY <1>9 DEF ReconnectFails, BuildTypeOK
    <2>3. CASE attempt < ReconnectAttempts
      <3>1. RecordsInOrder
        BY <1>9, <2>3, RecordsUnchanged DEF ReconnectFails
      <3> QED
        BY <1>9, <2>1, <2>2, <2>3, <3>1, SettledStep DEF ReconnectFails, BuildTypeOK, Phase
    <2>4. CASE ~(attempt < ReconnectAttempts)
      <3>1. results' = SkipRest /\ UNCHANGED <<captured, amis, files>>
        BY <1>9, <2>4 DEF ReconnectFails
      <3>2. \A i \in idx + 1 .. Len(Manifest) : Manifest[i] \in Flavor
        BY <2>2, BuildAssumption
      <3>3. /\ DOMAIN results' \subseteq Flavor
            /\ \A f \in DOMAIN results' : results'[f] \in Result
        BY <3>1, <3>2 DEF SkipRest, BuildTypeOK, Result
      <3>4. RecordsInOrder
        BY <3>1, <3>3 DEF BuildTypeOK, Places, RecordsInOrder
      <3> QED
        BY <1>9, <2>1, <2>2, <2>4, <3>4, SettledStep DEF ReconnectFails, BuildTypeOK, Phase, Call
    <2> QED
      BY <2>3, <2>4
  <1>10. ASSUME KillStaleColdsnap PROVE BuildInv'
    <2>1. RecordsInOrder
      BY <1>10, RecordsUnchanged DEF KillStaleColdsnap
    <2>2. PICK fs : snapshots' = Stopped(fs)
      BY <1>10 DEF KillStaleColdsnap
    <2>3. HostInOrder
      <3>1. /\ DOMAIN snapshots' = DOMAIN snapshots
            /\ \A f \in DOMAIN snapshots :
                 /\ snapshots'[f] \in [image : Flavor, state : {"uploading", "complete", "error"}]
                 /\ snapshots'[f].image = snapshots[f].image
        BY <2>2, StoppedEffect
      <3>2. abandoned' \subseteq abandoned /\ UNCHANGED <<tree, attestation, ranOn>>
        BY <1>10 DEF KillStaleColdsnap, SurviveKill
      <3> QED
        BY <3>1, <3>2 DEF BuildTypeOK, Places, Clean, HostInOrder
    <2> QED
      BY <1>10, <2>1, <2>3, AdvanceEffect, SettledStep
         DEF KillStaleColdsnap, BuildTypeOK, Phase, Command, Call
  <1>11. ASSUME KillFails PROVE BuildInv'
    <2>1. HostInOrder /\ RecordsInOrder
      BY <1>11, HostUnchanged, RecordsUnchanged DEF KillFails
    <2>2. linked' \in BOOLEAN /\ killLost' \in BOOLEAN
      BY <1>11, Zenon DEF KillFails, BuildTypeOK
    <2> QED
      BY <1>11, <2>1, <2>2, AdvanceEffect, SettledStep
         DEF KillFails, BuildTypeOK, Phase, Command, Call
  <1>12. ASSUME WaitForSnapshot \/ RegisterAmi \/ GenerateBuildResult \/ Pass2Fails
         PROVE BuildInv'
    <2>1. /\ phase = "pass2" /\ phase' = phase /\ idx \in DOMAIN captured
          /\ UNCHANGED <<kind, host, linked, attempt, tool, measured, captured, hostVars,
                         snapshots, killLost>>
      BY <1>12 DEF WaitForSnapshot, RegisterAmi, GenerateBuildResult, Pass2Fails, Finishing,
                   BuildTypeOK
    <2>2. step' \in Call /\ idx' \in Nat \ {0}
      BY <1>12, <2>1 DEF WaitForSnapshot, RegisterAmi, GenerateBuildResult, Pass2Fails,
                   NextCaptured, Call, BuildTypeOK
    <2>3. /\ Entry.flavor \in Flavor
          /\ Registered \in [flavor : Flavor, image : Flavor, pcr : Flavor]
      <3>1. /\ Entry \in [flavor : Flavor, pcr : Flavor]
            /\ Entry.flavor \in DOMAIN snapshots
        <4>1. captured \in Seq([flavor : Flavor, pcr : Flavor])
          BY DEF BuildTypeOK
        <4>2. captured[idx].flavor \in DOMAIN snapshots
          BY <2>1 DEF Places
        <4>3. captured[idx] \in [flavor : Flavor, pcr : Flavor]
          BY <2>1, <4>1, ElementInSet
        <4> QED
          BY <4>2, <4>3 DEF Entry
      <3>2. snapshots[Entry.flavor].image \in Flavor
        BY <3>1 DEF BuildTypeOK
      <3> QED
        BY <3>1, <3>2 DEF Registered
    <2>4. /\ amis' \subseteq [flavor : Flavor, image : Flavor, pcr : Flavor]
          /\ files' \subseteq Flavor
      BY <1>12, <2>3 DEF WaitForSnapshot, RegisterAmi, GenerateBuildResult, Pass2Fails, BuildTypeOK
    <2>5. /\ DOMAIN results' \subseteq Flavor
          /\ \A f \in DOMAIN results' : results'[f] \in Result
      <3>1. \/ results' = results
            \/ \E r \in Result : results' = Put(results, Entry.flavor, r)
        BY <1>12 DEF WaitForSnapshot, RegisterAmi, GenerateBuildResult, Pass2Fails, Result
      <3> QED
        BY <2>3, <3>1, PutResult DEF BuildTypeOK
    <2>6. RecordsInOrder
      BY <2>1, <2>4, <2>5 DEF BuildTypeOK, Places, RecordsInOrder
    <2>7. HostInOrder
      BY <2>1, HostUnchanged
    <2> QED
      BY <2>1, <2>2, <2>6, <2>7, SettledStep DEF BuildTypeOK, Phase
  <1>13. ASSUME Return PROVE BuildInv'
    <2>1. HostInOrder /\ RecordsInOrder
      BY <1>13, HostUnchanged, RecordsUnchanged DEF Return
    <2> QED
      BY <1>13, <2>1, SettledStep DEF Return, BuildTypeOK, Phase
  <1>14. ASSUME Instance PROVE BuildInv'
    <2>1. /\ UNCHANGED <<kind, linked, driverVars, amis, files, killLost>>
          /\ host' \in {"up", "down"}
      BY <1>14 DEF Instance, HostDies, StrayActs, StrayEnds, BuildTypeOK
    <2>2. HostInOrder
      <3>1. CASE HostDies
        BY <3>1, StoppedEffect DEF HostDies, BuildTypeOK, Places, Clean, HostInOrder
      <3>2. ASSUME NEW c \in Stray, NEW f \in Flavor, StrayEnds(c, f) PROVE HostInOrder
        <4>1. snapshots' = snapshots \/ snapshots' = Stopped({f})
          BY <3>2 DEF StrayEnds
        <4> QED
          BY <3>2, <4>1, StoppedEffect DEF StrayEnds, BuildTypeOK, Places, Clean, HostInOrder
      <3>3. ASSUME NEW c \in Stray, NEW f \in Flavor, StrayActs(c, f) PROVE HostInOrder
        <4>1. /\ <<c, f>> \in abandoned
              /\ c = "pull" => Signed(f)
              /\ c = "upload" => f \in DOMAIN snapshots
          BY <3>3 DEF StrayActs, Clean, Places
        <4>2. /\ TreeAfter(c, f) \in [image : Flavor \cup {None}, pcr : Flavor \cup {None}]
              /\ TreeAfter(c, f).image # None => Signed(TreeAfter(c, f).image)
              /\ AttestationAfter(c, f) \in Flavor \cup {None}
          BY <4>1, TreeEffect
        <4>3. CASE c = "pull"
          BY <3>3, <4>1, <4>2, <4>3 DEF StrayActs, BuildTypeOK, Places, Clean, HostInOrder
        <4>4. CASE c \in {"reset", "verify"}
          BY <3>3, <4>1, <4>2, <4>4 DEF StrayActs, BuildTypeOK, Places, Clean, HostInOrder
        <4>5. CASE c = "upload"
          BY <3>3, <4>1, <4>5, StateEffect
             DEF StrayActs, BuildTypeOK, Places, Clean, HostInOrder
        <4> QED
          BY <4>3, <4>4, <4>5 DEF Stray
      <3> QED
        BY <1>14, <3>1, <3>2, <3>3 DEF Instance
    <2>3. BuildTypeOK'
      BY <2>1, <2>2 DEF driverVars, BuildTypeOK, HostInOrder
    <2>4. Places'
      BY <2>1, <2>2 DEF driverVars, Places, HostInOrder, Current
    <2>5. Clean'
      <3>1. phase' = "pass1" /\ step' \in {"identity", "pull"} => Signed(Current)'
        BY <2>1 DEF driverVars, Clean, Signed, Current
      <3> QED
        BY <2>1, <2>2, <3>1, StaysSigned DEF Clean
    <2> QED
      BY <2>3, <2>4, <2>5
  <1> QED
    BY <1>1, <1>2, <1>3, <1>4, <1>5, <1>6, <1>7, <1>8, <1>9, <1>10, <1>11, <1>12, <1>13, <1>14
       DEF Next, Driver

LEMMA BuildInvariant == Spec => []BuildInv
  BY BuildInit, BuildStep, PTL DEF Spec

(***************************************************************************)
(* Every variable of the build driver, of the shared instance and of EBS   *)
(* keeps its type, whatever drops, dies or runs on, for any manifest.      *)
(***************************************************************************)
THEOREM BuildTypeCorrect == Spec => []BuildTypeOK
  BY BuildInvariant, PTL DEF BuildInv

(***************************************************************************)
(* Because the driver verifies before it downloads, no snapshot holds an   *)
(* unsigned image, not even one written by an abandoned download.          *)
(***************************************************************************)
THEOREM SnapshotsAreSigned == Spec => []OnlySigned
  BY BuildInvariant, PTL DEF BuildInv, Clean
-----------------------------------------------------------------------------
(* The results of the build: one for each flavor, none lost or overwritten. *)

Before(k) == {Manifest[i] : i \in 1..k}

\* The flavors that have a result at each point of the driver.
Progress ==
  /\ phase \in {"connect", "install", "pass1"} => DOMAIN results = Before(idx - 1)
  /\ phase \in {"reconnect", "kill"} => DOMAIN results = Before(idx)
  /\ phase \in {"pass2", "done"} => DOMAIN results = Before(Len(Manifest))

\* What was captured is distinct, accounted for and complete.
Captures ==
  /\ \A i, j \in DOMAIN captured : captured[i].flavor = captured[j].flavor => i = j
  /\ \A i \in DOMAIN captured :
       /\ captured[i].flavor \in DOMAIN results
       /\ snapshots[captured[i].flavor].state = "complete"

\* Before pass 2 a flavor is "pass1-ok" exactly if it was captured.
Tally ==
  /\ files = {}
  /\ \A f \in DOMAIN results : results[f] \notin {"success", "failed-pass2"}
  /\ \A i \in DOMAIN captured : results[captured[i].flavor] = "pass1-ok"
  /\ \A f \in DOMAIN results :
       results[f] = "pass1-ok" => \E i \in DOMAIN captured : captured[i].flavor = f

\* In pass 2 the captured flavors before idx have been settled.
Settled ==
  /\ phase = "done" => idx > Len(captured)
  /\ phase = "pass2" /\ step # "wait" => idx <= Len(captured)
  /\ \A i \in DOMAIN captured :
       IF i < idx THEN results[captured[i].flavor] \in {"success", "failed-pass2"}
                  ELSE results[captured[i].flavor] = "pass1-ok"
  /\ \A f \in DOMAIN results :
       results[f] \in {"pass1-ok", "success"} =>
         \E i \in DOMAIN captured : captured[i].flavor = f
  /\ files = {f \in DOMAIN results : results[f] = "success"}
  /\ \A f \in files : \E a \in amis : a.flavor = f
  /\ phase = "pass2" /\ step = "report" => \E a \in amis : a.flavor = Entry.flavor

Ledger ==
  /\ Progress
  /\ Captures
  /\ phase \in {"connect", "install", "pass1", "reconnect", "kill"} => Tally
  /\ phase \in {"pass2", "done"} => Settled

LedgerInv == BuildInv /\ Ledger

\* The manifest names no flavor twice: the one under way has no result yet.
LEMMA CurrentIsNew ==
  ASSUME BuildTypeOK, idx \in DOMAIN Manifest
  PROVE  /\ Current \notin Before(idx - 1)
         /\ Before(idx - 1) \cup {Current} = Before(idx)
  <1>1. idx \in Nat /\ idx >= 1 /\ idx <= Len(Manifest) /\ DOMAIN Manifest = 1..Len(Manifest)
    BY BuildAssumption
  <1>2. \A i \in 1..(idx - 1) : Manifest[i] # Manifest[idx]
    BY <1>1, BuildAssumption
  <1>3. 1..idx = 1..(idx - 1) \cup {idx}
    BY <1>1
  <1> QED
    BY <1>2, <1>3 DEF Before, Current

\* Leaving a flavor for the next one, or for pass 2, keeps the books.
LEMMA AdvanceLedger ==
  ASSUME BuildTypeOK, BuildTypeOK', phase \in {"pass1", "kill"}, Advance,
         DOMAIN results' = Before(idx), Captures', Tally'
  PROVE  Ledger'
  <1>1. idx \in Nat /\ idx >= 1 /\ idx <= Len(Manifest) /\ Len(Manifest) \in Nat
    BY BuildAssumption DEF BuildTypeOK
  <1>2. CASE idx < Len(Manifest)
    <2>1. phase' = "pass1" /\ idx' = idx + 1 /\ idx' - 1 = idx
      BY <1>1, <1>2 DEF Advance
    <2> QED
      BY <2>1 DEF Ledger, Progress
  <1>3. CASE ~(idx < Len(Manifest))
    <2>1. phase' = "pass2" /\ idx' = 1 /\ step' = "wait" /\ idx = Len(Manifest)
      BY <1>1, <1>3 DEF Advance
    <2>2. \A i \in DOMAIN captured' : i \in Nat /\ ~(i < 1)
      BY DEF BuildTypeOK
    <2>3. Settled'
      BY <2>1, <2>2 DEF Settled, Tally
    <2> QED
      BY <2>1, <2>3 DEF Ledger, Progress
  <1> QED
    BY <1>2, <1>3

StillComplete == \A i \in DOMAIN captured : snapshots'[captured[i].flavor].state = "complete"

\* A step that changes no result and captures nothing, and takes no complete
\* snapshot back, leaves the books as they are.
LEMMA BooksKept ==
  ASSUME LedgerInv, UNCHANGED <<results, captured, files>>, StillComplete
  PROVE  Captures' /\ (Tally => Tally')
  BY DEF LedgerInv, Ledger, Captures, Tally, StillComplete

\* A failure of the current flavor is recorded; it has no other result.
LEMMA FailureKept ==
  ASSUME LedgerInv, phase = "pass1",
         NEW r \in {"failed-application", "failed-transport-indeterminate"},
         results' = Put(results, Current, r), UNCHANGED <<captured, files>>,
         StillComplete
  PROVE  /\ DOMAIN results' = Before(idx)
         /\ Captures' /\ Tally'
  <1>1. /\ Current \notin DOMAIN results
        /\ DOMAIN results \cup {Current} = Before(idx)
    BY CurrentIsNew DEF LedgerInv, BuildInv, BuildTypeOK, Ledger, Progress
  <1>2. /\ DOMAIN results' = DOMAIN results \cup {Current} /\ results'[Current] = r
        /\ \A f \in DOMAIN results : results'[f] = results[f]
    BY <1>1 DEF Put
  <1>3. Captures'
    BY <1>1, <1>2 DEF LedgerInv, Ledger, Captures, StillComplete
  <1>4. Tally'
    BY <1>1, <1>2 DEF LedgerInv, Ledger, Captures, Tally
  <1> QED
    BY <1>1, <1>2, <1>3, <1>4

LEMMA LedgerInit == Init => Ledger
  <1> SUFFICES ASSUME Init PROVE Ledger
    OBVIOUS
  <1>1. DOMAIN results = {} /\ DOMAIN captured = {} /\ files = {}
    BY DEF Init
  <1>2. Before(idx - 1) = {}
    BY DEF Init, Before
  <1> QED
    BY <1>1, <1>2 DEF Init, Ledger, Progress, Captures, Tally

LEMMA LedgerStep == LedgerInv /\ BuildInv' /\ [Next]_vars => Ledger'
  <1> SUFFICES ASSUME LedgerInv, BuildInv', [Next]_vars PROVE Ledger'
    OBVIOUS
  <1> USE DEF LedgerInv
  <1>0. BuildTypeOK /\ Places /\ BuildTypeOK'
    BY DEF BuildInv
  <1>1. CASE UNCHANGED vars
    BY <1>1 DEF vars, driverVars, Ledger, Progress, Captures, Tally, Settled, Entry
  <1>2. ASSUME Connect \/ ConnectFails \/ Install \/ InstallRetried \/ InstallFails
               \/ MeasurementsRaise
        PROVE Ledger'
    <2>1. /\ UNCHANGED <<snapshots, files, idx, results, captured>>
          /\ \/ phase' = "aborted"
             \/ phase \in {"connect", "install"} /\ phase' \in {"connect", "install", "pass1"}
      <3>1. CASE ConnectFails
        BY <3>1 DEF ConnectFails, Abort
      <3>2. CASE Install
        BY <3>2 DEF Install
      <3> QED
        BY <1>2, <3>1, <3>2 DEF Connect, InstallRetried, InstallFails, MeasurementsRaise, Abort
    <2>2. Captures' /\ (Tally => Tally')
      BY <2>1, BooksKept DEF StillComplete, Ledger, Captures
    <2> QED
      BY <2>1, <2>2 DEF Ledger, Progress
  <1>3. ASSUME RemoteCommand PROVE Ledger'
    <2>1. /\ phase = "pass1" /\ UNCHANGED <<phase, idx, results, captured, files>>
          /\ \/ UNCHANGED snapshots
             \/ snapshots' = Put(snapshots, Current, [image |-> tree.image, state |-> "uploading"])
      BY <1>3 DEF RemoteCommand
    <2>2. Current \notin DOMAIN results
      BY <1>0, <2>1, CurrentIsNew DEF BuildTypeOK, Ledger, Progress
    <2>3. \A i \in DOMAIN captured :
            captured[i].flavor \in DOMAIN snapshots /\ captured[i].flavor # Current
      BY <1>0, <2>2 DEF Places, Ledger, Captures
    <2>4. StillComplete
      BY <2>1, <2>3 DEF Put, Ledger, Captures, StillComplete
    <2>5. Captures' /\ (Tally => Tally')
      BY <2>1, <2>4, BooksKept
    <2> QED
      BY <2>1, <2>5 DEF Ledger, Progress
  <1>4. ASSUME Capture PROVE Ledger'
    <2>1. /\ phase = "pass1" /\ step = "upload" /\ Current \in DOMAIN snapshots
          /\ snapshots' = [snapshots EXCEPT ![Current].state = "complete"]
          /\ captured' = Append(captured, [flavor |-> Current, pcr |-> measured])
          /\ results' = Put(results, Current, "pass1-ok")
          /\ files' = files /\ Advance
      BY <1>0, <1>4 DEF Capture, Places
    <2>2. Current \notin DOMAIN results /\ DOMAIN results \cup {Current} = Before(idx)
      BY <1>0, <2>1, CurrentIsNew DEF BuildTypeOK, Ledger, Progress
    <2>3. /\ DOMAIN results' = DOMAIN results \cup {Current} /\ results'[Current] = "pass1-ok"
          /\ \A f \in DOMAIN results : results'[f] = results[f]
      BY <2>1, <2>2 DEF Put
    <2>4. /\ DOMAIN captured' = DOMAIN captured \cup {Len(captured) + 1}
          /\ \A i \in DOMAIN captured : captured'[i] = captured[i]
          /\ captured'[Len(captured) + 1] = [flavor |-> Current, pcr |-> measured]
          /\ Len(captured) + 1 \notin DOMAIN captured
      BY <1>0, <2>1 DEF BuildTypeOK
    <2>5. /\ snapshots'[Current].state = "complete"
          /\ \A f \in DOMAIN snapshots : f # Current => snapshots'[f] = snapshots[f]
      BY <1>0, <2>1 DEF BuildTypeOK
    <2>6. \A i \in DOMAIN captured :
            /\ captured[i].flavor \in DOMAIN results /\ captured[i].flavor # Current
            /\ captured[i].flavor \in DOMAIN snapshots
      BY <1>0, <2>2 DEF Ledger, Captures, Places
    <2>7. Captures'
      BY <2>3, <2>4, <2>5, <2>6 DEF Ledger, Captures
    <2>8. Tally'
      <3>1. Tally
        BY <2>1 DEF Ledger
      <3>2. \A f \in DOMAIN results' : results'[f] = "pass1-ok" =>
              \E i \in DOMAIN captured' : captured'[i].flavor = f
        BY <2>3, <2>4, <3>1 DEF Tally
      <3> QED
        BY <2>1, <2>3, <2>4, <2>6, <3>1, <3>2 DEF Tally
    <2> QED
      BY <1>0, <2>1, <2>2, <2>3, <2>7, <2>8, AdvanceLedger
  <1>5. ASSUME ApplicationFails \/ Interrupted PROVE Ledger'
    <2>1. phase = "pass1" /\ UNCHANGED <<captured, files>>
      BY <1>5 DEF ApplicationFails, Interrupted
    <2>2. PICK r \in {"failed-application", "failed-transport-indeterminate"} :
            results' = Put(results, Current, r)
      BY <1>5 DEF ApplicationFails, Interrupted
    <2>3. \/ UNCHANGED snapshots
          \/ \E s : snapshots' = [snapshots EXCEPT ![Current].state = s]
      BY <1>5 DEF ApplicationFails, Interrupted, Unheard
    <2>4. Current \notin DOMAIN results
      BY <1>0, <2>1, CurrentIsNew DEF BuildTypeOK, Ledger, Progress
    <2>5. StillComplete
      <3>1. \A i \in DOMAIN captured :
              captured[i].flavor \in DOMAIN snapshots /\ captured[i].flavor # Current
        BY <1>0, <2>4 DEF Places, Ledger, Captures
      <3> QED
        BY <2>3, <3>1 DEF Ledger, Captures, StillComplete
    <2>6. DOMAIN results' = Before(idx) /\ Captures' /\ Tally'
      BY <2>1, <2>2, <2>5, FailureKept
    <2>7. CASE ApplicationFails
      BY <1>0, <2>1, <2>6, <2>7, AdvanceLedger DEF ApplicationFails
    <2>8. CASE Interrupted
      <3>1. phase' = "reconnect" /\ idx' = idx
        BY <2>8 DEF Interrupted
      <3> QED
        BY <2>6, <3>1 DEF Ledger, Progress
    <2> QED
      BY <1>5, <2>7, <2>8
  <1>6. ASSUME Reconnect PROVE Ledger'
    <2>1. /\ phase = "reconnect" /\ phase' = "kill"
          /\ UNCHANGED <<snapshots, files, idx, results, captured>>
      BY <1>6 DEF Reconnect, hostVars
    <2>2. Captures' /\ (Tally => Tally')
      BY <2>1, BooksKept DEF StillComplete, Ledger, Captures
    <2> QED
      BY <2>1, <2>2 DEF Ledger, Progress
  <1>7. ASSUME ReconnectFails PROVE Ledger'
    <2>1. phase = "reconnect" /\ UNCHANGED <<snapshots, files, captured>>
      BY <1>7 DEF ReconnectFails, hostVars
    <2>2. CASE attempt < ReconnectAttempts
      <3>1. UNCHANGED <<phase, idx, results>>
        BY <1>7, <2>2 DEF ReconnectFails
      <3>2. Captures' /\ (Tally => Tally')
        BY <2>1, <3>1, BooksKept DEF StillComplete, Ledger, Captures
      <3> QED
        BY <2>1, <3>1, <3>2 DEF Ledger, Progress
    <2>3. CASE ~(attempt < ReconnectAttempts)
      <3>1. results' = SkipRest /\ phase' = "pass2" /\ idx' = 1 /\ step' = "wait"
        BY <1>7, <2>3 DEF ReconnectFails
      <3>2. idx \in 1..Len(Manifest) /\ Len(Manifest) \in Nat /\ DOMAIN results = Before(idx)
        BY <1>0, <2>1, BuildAssumption DEF BuildTypeOK, Ledger, Progress
      <3>3. /\ DOMAIN results' = Before(Len(Manifest))
            /\ \A f \in DOMAIN results : results'[f] = results[f]
            /\ \A f \in DOMAIN results' : f \notin DOMAIN results => results'[f] = "skipped-host-dead"
        BY <3>1, <3>2 DEF SkipRest, Before
      <3>4. DOMAIN results \subseteq DOMAIN results'
        BY <3>2, <3>3 DEF Before
      <3>5. Captures'
        BY <2>1, <3>3, <3>4 DEF Ledger, Captures
      <3>6. \A i \in DOMAIN captured' : i \in Nat /\ ~(i < 1)
        BY <1>0 DEF BuildTypeOK
      <3>7. Tally /\ \A i \in DOMAIN captured : captured[i].flavor \in DOMAIN results
        BY <2>1 DEF Ledger, Captures
      <3>8. Settled'
        BY <2>1, <3>1, <3>3, <3>4, <3>6, <3>7 DEF Settled, Tally
      <3> QED
        BY <3>1, <3>3, <3>5, <3>8 DEF Ledger, Progress
    <2> QED
      BY <2>2, <2>3
  <1>8. ASSUME KillStaleColdsnap \/ KillFails PROVE Ledger'
    <2>1. /\ phase = "kill" /\ Advance /\ UNCHANGED <<results, captured, files>>
          /\ snapshots' = snapshots \/ \E fs : snapshots' = Stopped(fs)
      BY <1>8 DEF KillStaleColdsnap, KillFails
    <2>2. StillComplete
      BY <1>0, <2>1 DEF Stopped, Places, Ledger, Captures, StillComplete
    <2>3. Captures' /\ Tally'
      BY <2>1, <2>2, BooksKept DEF Ledger
    <2>4. DOMAIN results' = Before(idx)
      BY <2>1 DEF Ledger, Progress
    <2> QED
      BY <1>0, <2>1, <2>3, <2>4, AdvanceLedger
  <1>9. ASSUME WaitForSnapshot \/ RegisterAmi PROVE Ledger'
    <2>1. /\ Finishing /\ phase' = phase /\ idx' = idx
          /\ UNCHANGED <<results, captured, files, snapshots>>
          /\ amis \subseteq amis'
          /\ step' \in {"register", "report"}
          /\ step' = "report" => Registered \in amis'
      BY <1>9 DEF WaitForSnapshot, RegisterAmi
    <2>2. Captures'
      BY <2>1, BooksKept DEF StillComplete, Ledger, Captures
    <2>3. Settled'
      <3>1. Settled /\ phase = "pass2" /\ idx <= Len(captured)
        BY <2>1 DEF Ledger, Finishing
      <3>2. Registered.flavor = Entry.flavor /\ Entry' = Entry
        BY <2>1 DEF Registered, Entry
      <3> QED
        BY <2>1, <3>1, <3>2 DEF Settled
    <2> QED
      BY <2>1, <2>2, <2>3 DEF Ledger, Progress, Finishing
  <1>10. ASSUME GenerateBuildResult \/ Pass2Fails PROVE Ledger'
    <2>1. /\ phase = "pass2" /\ phase' = phase /\ idx \in 1..Len(captured)
          /\ idx' = idx + 1 /\ step' = "wait" /\ amis \subseteq amis'
          /\ UNCHANGED <<captured, snapshots>>
      BY <1>0, <1>10 DEF GenerateBuildResult, Pass2Fails, Finishing, NextCaptured, BuildTypeOK
    <2>2. /\ idx \in DOMAIN captured /\ Entry.flavor = captured[idx].flavor
          /\ \A i \in DOMAIN captured : i \in Nat /\ (i < idx + 1 <=> i < idx \/ i = idx)
      BY <1>0, <2>1 DEF BuildTypeOK, Entry
    <2>3. Entry.flavor \in DOMAIN results /\ results[Entry.flavor] = "pass1-ok" /\ Settled
      BY <2>1, <2>2 DEF Ledger, Captures, Settled
    <2>4. \/ /\ results' = Put(results, Entry.flavor, "success")
             /\ files' = files \cup {Entry.flavor} /\ step = "report"
          \/ results' = Put(results, Entry.flavor, "failed-pass2") /\ files' = files
      BY <1>10 DEF GenerateBuildResult, Pass2Fails
    <2>5. /\ DOMAIN results' = DOMAIN results
          /\ \A f \in DOMAIN results : f # Entry.flavor => results'[f] = results[f]
          /\ \/ results'[Entry.flavor] = "success" /\ files' = files \cup {Entry.flavor}
                  /\ \E a \in amis : a.flavor = Entry.flavor
             \/ results'[Entry.flavor] = "failed-pass2" /\ files' = files
      <3>1. ASSUME NEW y, results' = Put(results, Entry.flavor, y)
            PROVE  /\ DOMAIN results' = DOMAIN results /\ results'[Entry.flavor] = y
                   /\ \A f \in DOMAIN results : f # Entry.flavor => results'[f] = results[f]
        <4>1. DOMAIN results \cup {Entry.flavor} = DOMAIN results
          BY <2>3
        <4> QED
          BY <3>1, <4>1, <2>3 DEF Put
      <3>2. CASE step = "report" /\ results' = Put(results, Entry.flavor, "success")
                 /\ files' = files \cup {Entry.flavor}
        <4>1. \E a \in amis : a.flavor = Entry.flavor
          BY <2>1, <2>3, <3>2 DEF Settled
        <4> QED
          BY <3>1, <3>2, <4>1
      <3>3. CASE results' = Put(results, Entry.flavor, "failed-pass2") /\ files' = files
        BY <3>1, <3>3
      <3> QED
        BY <2>4, <3>2, <3>3
    <2>6. Captures'
      BY <2>1, <2>5 DEF Ledger, Captures
    <2>7. \A i \in DOMAIN captured : captured[i].flavor = Entry.flavor <=> i = idx
      BY <2>2 DEF Ledger, Captures
    <2>8. Settled'
      <3>1. \A i \in DOMAIN captured :
              IF i < idx' THEN results'[captured[i].flavor] \in {"success", "failed-pass2"}
                          ELSE results'[captured[i].flavor] = "pass1-ok"
        BY <2>1, <2>2, <2>3, <2>5, <2>7 DEF Ledger, Captures, Settled
      <3>2. \A f \in DOMAIN results' : results'[f] \in {"pass1-ok", "success"} =>
              \E i \in DOMAIN captured' : captured'[i].flavor = f
        BY <2>1, <2>2, <2>3, <2>5 DEF Settled
      <3>3. files' = {f \in DOMAIN results' : results'[f] = "success"}
        BY <2>3, <2>5 DEF Settled
      <3>4. \A f \in files' : \E a \in amis' : a.flavor = f
        BY <2>1, <2>3, <2>5 DEF Settled
      <3> QED
        BY <2>1, <3>1, <3>2, <3>3, <3>4 DEF Settled
    <2> QED
      BY <2>1, <2>5, <2>6, <2>8 DEF Ledger, Progress
  <1>11. ASSUME Return PROVE Ledger'
    <2>1. /\ phase = "pass2" /\ phase' = "done" /\ idx > Len(captured)
          /\ UNCHANGED <<idx, results, captured, files, snapshots, amis>>
      BY <1>11 DEF Return
    <2>2. Captures'
      BY <2>1, BooksKept DEF StillComplete, Ledger, Captures
    <2> QED
      BY <2>1, <2>2 DEF Ledger, Progress, Settled
  <1>12. ASSUME Instance PROVE Ledger'
    <2>1. UNCHANGED <<driverVars, amis, files>>
      BY <1>12 DEF Instance, HostDies, StrayActs, StrayEnds
    <2>2. \/ snapshots' = snapshots
          \/ \E fs : snapshots' = Stopped(fs)
          \/ \E f : snapshots' = [snapshots EXCEPT ![f].state = "complete"]
      BY <1>12 DEF Instance, HostDies, StrayActs, StrayEnds
    <2>3. StillComplete
      <3>1. \A i \in DOMAIN captured :
              /\ captured[i].flavor \in DOMAIN snapshots
              /\ snapshots[captured[i].flavor].state = "complete"
              /\ snapshots[captured[i].flavor]
                   \in [image : Flavor, state : {"uploading", "complete", "error"}]
        BY <1>0 DEF Places, Ledger, Captures, BuildTypeOK
      <3> QED
        BY <2>2, <3>1 DEF Stopped, StillComplete
    <2>4. Captures' /\ (Tally => Tally')
      BY <2>1, <2>3, BooksKept DEF driverVars
    <2> QED
      BY <2>1, <2>4 DEF driverVars, Ledger, Progress, Settled, Entry
  <1> QED
    BY <1>1, <1>2, <1>3, <1>4, <1>5, <1>6, <1>7, <1>8, <1>9, <1>10, <1>11, <1>12
       DEF Next, Driver

LEMMA LedgerInvariant == Spec => []LedgerInv
  <1>1. Init => LedgerInv
    BY BuildInit, LedgerInit DEF LedgerInv
  <1>2. LedgerInv /\ [Next]_vars => LedgerInv'
    BY BuildStep, LedgerStep DEF LedgerInv
  <1> QED
    BY <1>1, <1>2, PTL DEF Spec

(***************************************************************************)
(* When the driver returns, every flavor has its one result, every         *)
(* captured snapshot has been through pass 2, and a success has its AMI    *)
(* and its result file, from a complete snapshot.                          *)
(***************************************************************************)
THEOREM ResultsAreComplete == Spec => []ResultsComplete
  <1>1. ASSUME LedgerInv PROVE ResultsComplete
    <2> SUFFICES ASSUME phase = "done"
                 PROVE  /\ DOMAIN results = {Manifest[i] : i \in DOMAIN Manifest}
                        /\ \A f \in DOMAIN results : results[f] # "pass1-ok"
                        /\ \A i \in DOMAIN captured :
                             results[captured[i].flavor] \in {"success", "failed-pass2"}
                        /\ \A f \in DOMAIN results : results[f] = "success" <=> f \in files
                        /\ \A f \in files : /\ snapshots[f].state = "complete"
                                            /\ \E a \in amis : a.flavor = f
      BY DEF ResultsComplete
    <2>1. Progress /\ Captures /\ Settled /\ idx > Len(captured)
      BY <1>1 DEF LedgerInv, Ledger, Settled
    <2>2. DOMAIN results = {Manifest[i] : i \in DOMAIN Manifest}
      <3>1. DOMAIN Manifest = 1..Len(Manifest)
        BY BuildAssumption
      <3> QED
        BY <2>1, <3>1 DEF Progress, Before
    <2>3. \A i \in DOMAIN captured : i < idx
      BY <1>1, <2>1 DEF LedgerInv, BuildInv, BuildTypeOK
    <2>4. \A i \in DOMAIN captured :
            results[captured[i].flavor] \in {"success", "failed-pass2"}
      BY <2>1, <2>3 DEF Settled
    <2>5. \A f \in DOMAIN results : results[f] # "pass1-ok"
      BY <2>1, <2>4 DEF Settled
    <2>6. \A f \in DOMAIN results : results[f] = "success" <=> f \in files
      BY <2>1 DEF Settled
    <2>7. \A f \in files : snapshots[f].state = "complete" /\ \E a \in amis : a.flavor = f
      <3>1. \A f \in files : \E i \in DOMAIN captured : captured[i].flavor = f
        BY <2>1 DEF Settled
      <3> QED
        BY <2>1, <3>1 DEF Captures, Settled
    <2> QED
      BY <2>2, <2>4, <2>5, <2>6, <2>7
  <1> QED
    BY <1>1, LedgerInvariant, PTL

\* A result that is not "pass1-ok" stays: pass 1 records one only for a flavor
\* that has none, and pass 2 only for one that was captured.
LEMMA ResultsKept ==
  ASSUME LedgerInv, [Next]_vars
  PROVE  \A f \in DOMAIN results : results[f] # "pass1-ok" =>
           f \in DOMAIN results' /\ results'[f] = results[f]
  <1> DEFINE Final == \A f \in DOMAIN results : results[f] # "pass1-ok" =>
                        f \in DOMAIN results' /\ results'[f] = results[f]
  <1>1. ASSUME NEW f, NEW r, results' = Put(results, f, r),
               f \notin DOMAIN results \/ results[f] = "pass1-ok"
        PROVE Final
    BY <1>1 DEF Put
  <1>2. CASE Capture \/ ApplicationFails \/ Interrupted
    <2>1. Current \notin DOMAIN results
      <3>1. phase = "pass1" /\ idx \in DOMAIN Manifest
        BY <1>2 DEF LedgerInv, BuildInv, BuildTypeOK, Capture, ApplicationFails, Interrupted
      <3> QED
        BY <3>1, CurrentIsNew DEF LedgerInv, BuildInv, Ledger, Progress
    <2>2. \E r : results' = Put(results, Current, r)
      BY <1>2 DEF Capture, ApplicationFails, Interrupted
    <2> QED
      BY <1>1, <2>1, <2>2
  <1>3. CASE GenerateBuildResult \/ Pass2Fails
    <2>1. phase = "pass2" /\ idx \in DOMAIN captured /\ ~(idx < idx)
      BY <1>3 DEF LedgerInv, BuildInv, BuildTypeOK, GenerateBuildResult, Pass2Fails, Finishing
    <2>2. results[Entry.flavor] = "pass1-ok"
      BY <2>1 DEF LedgerInv, Ledger, Settled, Entry
    <2>3. \E r : results' = Put(results, Entry.flavor, r)
      BY <1>3 DEF GenerateBuildResult, Pass2Fails
    <2> QED
      BY <1>1, <2>2, <2>3
  <1>4. CASE ReconnectFails
    BY <1>4 DEF ReconnectFails, SkipRest
  <1>5. CASE \/ Connect \/ ConnectFails \/ Install \/ InstallRetried \/ InstallFails
             \/ RemoteCommand \/ MeasurementsRaise \/ Reconnect \/ KillStaleColdsnap
             \/ KillFails \/ WaitForSnapshot \/ RegisterAmi \/ Return \/ Instance
             \/ UNCHANGED vars
    <2>1. results' = results
      BY <1>5 DEF Connect, ConnectFails, Install, InstallRetried, InstallFails, Abort,
                  RemoteCommand, MeasurementsRaise, Reconnect, KillStaleColdsnap, KillFails,
                  WaitForSnapshot, RegisterAmi, Return, Instance, HostDies, StrayActs,
                  StrayEnds, driverVars, vars
    <2> QED
      BY <2>1
  <1> QED
    BY <1>2, <1>3, <1>4, <1>5 DEF Next, Driver

(***************************************************************************)
(* A failure of a flavor is never taken back: neither the abort of pass 1  *)
(* nor pass 2 overwrites it.                                               *)
(***************************************************************************)
THEOREM ResultsAreFinal == Spec => ResultsFinal
  <1>1. LedgerInv /\ [Next]_vars =>
          [\A f \in DOMAIN results : results[f] # "pass1-ok" =>
             f \in DOMAIN results' /\ results'[f] = results[f]]_vars
    BY ResultsKept
  <1> QED
    BY <1>1, LedgerInvariant, PTL DEF Spec, ResultsFinal
-----------------------------------------------------------------------------
(* One upload at a time, as long as the kill of an abandoned one works.     *)

Uploading(f) == f \in DOMAIN snapshots /\ snapshots[f].state = "uploading"
AbandonedUpload(f) == <<"upload", f>> \in abandoned

\* An upload runs under the driver's eyes or was abandoned, and an abandoned
\* one is gone before the driver sends the next flavor's first command.
OneUpload ==
  /\ phase = "pass1" => linked \/ step = "reset"
  /\ host = "down" => \A f \in Flavor : ~Uploading(f)
  /\ phase \in {"connect", "install"} \/ (phase = "pass1" /\ linked) =>
       \A f \in Flavor : ~AbandonedUpload(f)
  /\ \A f, g \in Flavor : AbandonedUpload(f) /\ AbandonedUpload(g) => f = g
  /\ \A f \in Flavor : Uploading(f) =>
       AbandonedUpload(f) \/ (phase = "pass1" /\ step = "upload" /\ f = Current)

Uploads == ~killLost => OneUpload
UploadInv == BuildInv /\ Uploads

\* What ends uploads starts none, and what starts one starts the current flavor's.
LEMMA StoppedUploads ==
  ASSUME NEW fs, snapshots' = Stopped(fs)
  PROVE  \A f : Uploading(f)' <=> Uploading(f) /\ f \notin fs
  BY DEF Stopped, Uploading

LEMMA EndedUpload ==
  ASSUME BuildTypeOK, NEW x \in Flavor, NEW s \in {"complete", "error"},
         snapshots' = [snapshots EXCEPT ![x].state = s]
  PROVE  \A f \in Flavor : Uploading(f)' <=> Uploading(f) /\ f # x
  BY DEF BuildTypeOK, Uploading

\* An upload whose link is lost goes on as an abandoned one or not at all.
LEMMA UnheardUpload ==
  ASSUME BuildTypeOK, OneUpload, phase = "pass1", Unheard, UNCHANGED host
  PROVE  /\ \A f \in Flavor : Uploading(f)' => AbandonedUpload(f)'
         /\ \A f, g \in Flavor : AbandonedUpload(f)' /\ AbandonedUpload(g)' => f = g
         /\ host = "down" => \A f \in Flavor : ~Uploading(f)'
  <1>1. Current \in Flavor
    BY BuildAssumption DEF BuildTypeOK, Current
  <1>2. CASE UNCHANGED <<abandoned, snapshots>> /\ (step = "upload" => ~Online)
    <2>1. \A f \in Flavor : Uploading(f) => AbandonedUpload(f)
      BY <1>2 DEF OneUpload, BuildTypeOK, Online
    <2> QED
      BY <1>2, <2>1 DEF OneUpload, Uploading, AbandonedUpload
  <1>3. CASE /\ step = "upload" /\ Online /\ UNCHANGED abandoned
             /\ \E s \in {"complete", "error"} :
                  snapshots' = [snapshots EXCEPT ![Current].state = s]
    <2>1. \A f \in Flavor : Uploading(f)' <=> Uploading(f) /\ f # Current
      BY <1>1, <1>3, EndedUpload
    <2> QED
      BY <1>3, <2>1 DEF OneUpload, AbandonedUpload, Online
  <1>4. CASE /\ Online /\ UNCHANGED snapshots
             /\ abandoned' = abandoned \cup {<<step, Current>>}
    <2>1. \A f \in Flavor : ~AbandonedUpload(f) /\ (Uploading(f)' => step = "upload" /\ f = Current)
      BY <1>4 DEF OneUpload, Online, Uploading
    <2>2. \A f \in Flavor : AbandonedUpload(f)' <=> step = "upload" /\ f = Current
      BY <1>4, <2>1 DEF AbandonedUpload
    <2> QED
      BY <1>4, <2>1, <2>2 DEF Online
  <1> QED
    BY <1>2, <1>3, <1>4 DEF Unheard, hostVars

LEMMA UploadStep == UploadInv /\ BuildInv' /\ [Next]_vars => Uploads'
  <1> SUFFICES ASSUME UploadInv, BuildInv', [Next]_vars, ~killLost' PROVE OneUpload'
    BY DEF Uploads
  <1>0. BuildTypeOK /\ BuildTypeOK' /\ Places
    BY DEF UploadInv, BuildInv
  <1>1. ~killLost
    BY DEF Next, vars, Driver, Instance, Connect, ConnectFails, Install, InstallRetried,
           InstallFails, RemoteCommand, Capture, ApplicationFails, MeasurementsRaise,
           Interrupted, Reconnect, ReconnectFails, KillStaleColdsnap, KillFails,
           WaitForSnapshot, RegisterAmi, GenerateBuildResult, Pass2Fails, Return,
           HostDies, StrayActs, StrayEnds
  <1>2. OneUpload
    BY <1>1 DEF UploadInv, Uploads
  <1>3. CASE UNCHANGED vars
    BY <1>2, <1>3 DEF vars, driverVars, hostVars, OneUpload, Uploading, AbandonedUpload, Current
  <1>4. CASE Connect \/ ConnectFails \/ Install \/ InstallRetried \/ InstallFails
             \/ MeasurementsRaise
    <2>1. /\ UNCHANGED <<host, abandoned, snapshots>>
          /\ phase \in {"connect", "install", "pass1"} /\ (phase = "pass1" => linked /\ step # "upload")
          /\ phase' \in {"connect", "install", "aborted"} \/ (phase' = "pass1" /\ linked')
      <3>1. CASE Install
        BY <3>1 DEF Install, Online, hostVars
      <3>2. CASE ConnectFails
        BY <3>2 DEF ConnectFails, Abort, hostVars
      <3> QED
        BY <1>4, <3>1, <3>2 DEF Connect, InstallRetried, InstallFails, MeasurementsRaise,
                                Abort, Online, hostVars
    <2> QED
      BY <1>2, <2>1 DEF OneUpload, Uploading, AbandonedUpload
  <1>5. CASE RemoteCommand
    <2>1. /\ phase = "pass1" /\ phase' = "pass1" /\ idx' = idx /\ linked /\ linked'
          /\ host = "up" /\ UNCHANGED <<host, abandoned>> /\ step # "upload"
      BY <1>5 DEF RemoteCommand, Online
    <2>2. CASE step # "find"
      BY <1>2, <1>5, <2>1, <2>2 DEF RemoteCommand, OneUpload, Uploading, AbandonedUpload
    <2>3. CASE step = "find"
      <3>1. step' = "upload" /\ Current' = Current
        BY <1>5, <2>1, <2>3 DEF RemoteCommand, Following, Current
      <3>2. \A f \in Flavor : Uploading(f)' => Uploading(f) \/ f = Current
        BY <1>5, <2>3 DEF RemoteCommand, Put, Uploading
      <3> QED
        BY <1>2, <2>1, <3>1, <3>2 DEF OneUpload, AbandonedUpload
    <2> QED
      BY <2>2, <2>3
  <1>6. CASE Capture \/ (ApplicationFails /\ ~(Unheard /\ linked' = FALSE))
    <2>1. /\ phase = "pass1" /\ UNCHANGED <<host, linked, abandoned>> /\ host = "up" /\ linked
          /\ phase' \in {"pass1", "pass2"} /\ Current \in Flavor
      <3>1. idx \in DOMAIN Manifest
        BY <1>0, <1>6 DEF Capture, ApplicationFails, BuildTypeOK
      <3> QED
        BY <1>6, <3>1, BuildAssumption
           DEF Capture, ApplicationFails, Online, Advance, hostVars, Current
    <2>2. \A f \in Flavor : ~Uploading(f)'
      <3>1. CASE step = "upload" /\ \E s \in {"complete", "error"} :
                   snapshots' = [snapshots EXCEPT ![Current].state = s]
        BY <1>0, <1>2, <2>1, <3>1, EndedUpload DEF OneUpload
      <3>2. CASE step # "upload" /\ UNCHANGED snapshots
        BY <1>2, <2>1, <3>2 DEF OneUpload, Uploading
      <3> QED
        BY <1>6, <3>1, <3>2 DEF Capture, ApplicationFails
    <2> QED
      BY <1>2, <2>1, <2>2 DEF OneUpload, AbandonedUpload
  <1>7. CASE (Interrupted \/ ApplicationFails) /\ Unheard /\ linked' = FALSE
    <2>1. /\ phase = "pass1" /\ UNCHANGED host /\ linked' = FALSE
          /\ phase' \in {"reconnect", "pass2"} \/ (phase' = "pass1" /\ step' = "reset")
      BY <1>7 DEF Interrupted, ApplicationFails, Advance
    <2>2. /\ \A f \in Flavor : Uploading(f)' => AbandonedUpload(f)'
          /\ \A f, g \in Flavor : AbandonedUpload(f)' /\ AbandonedUpload(g)' => f = g
          /\ host = "down" => \A f \in Flavor : ~Uploading(f)'
      BY <1>0, <1>2, <1>7, <2>1, UnheardUpload
    <2> QED
      BY <2>1, <2>2 DEF OneUpload
  <1>8. CASE Reconnect \/ ReconnectFails
    <2>1. /\ phase = "reconnect" /\ phase' \in {"reconnect", "kill", "pass2"}
          /\ UNCHANGED <<host, abandoned, snapshots>>
      BY <1>8 DEF Reconnect, ReconnectFails, hostVars
    <2> QED
      BY <1>2, <2>1 DEF OneUpload, Uploading, AbandonedUpload
  <1>9. CASE KillStaleColdsnap
    <2>1. /\ phase = "kill" /\ linked /\ UNCHANGED <<host, linked>> /\ abandoned' = SurviveKill
          /\ phase' \in {"pass1", "pass2"}
      BY <1>9 DEF KillStaleColdsnap, Online, Advance
    <2>2. \A f \in Flavor : ~AbandonedUpload(f)'
      BY <2>1 DEF SurviveKill, AbandonedUpload
    <2>3. \A f \in Flavor : AbandonedUpload(f) => f \in {a[2] : a \in abandoned \ abandoned'}
      BY <2>2 DEF AbandonedUpload
    <2>4. \A f \in Flavor : Uploading(f)' => Uploading(f) /\ ~AbandonedUpload(f)
      BY <1>9, <2>3, StoppedUploads DEF KillStaleColdsnap
    <2> QED
      BY <1>2, <2>1, <2>2, <2>4 DEF OneUpload
  <1>10. CASE KillFails
    BY <1>10 DEF KillFails
  <1>11. CASE WaitForSnapshot \/ RegisterAmi \/ GenerateBuildResult \/ Pass2Fails \/ Return
    <2>1. /\ phase = "pass2" /\ phase' \in {"pass2", "done"}
          /\ UNCHANGED <<host, abandoned, snapshots>>
      BY <1>11 DEF WaitForSnapshot, RegisterAmi, GenerateBuildResult, Pass2Fails, Return,
                   Finishing, hostVars
    <2> QED
      BY <1>2, <2>1 DEF OneUpload, Uploading, AbandonedUpload
  <1>12. CASE HostDies
    <2>1. \A f \in Flavor : ~Uploading(f)'
      BY <1>12, StoppedUploads DEF HostDies
    <2>2. abandoned' = {} /\ UNCHANGED <<phase, linked, step>>
      BY <1>12 DEF HostDies, driverVars
    <2> QED
      BY <1>2, <2>1, <2>2 DEF OneUpload, AbandonedUpload
  <1>13. ASSUME NEW c \in Stray, NEW x \in Flavor, StrayActs(c, x) \/ StrayEnds(c, x)
         PROVE  OneUpload'
    <2>1. /\ UNCHANGED <<host, linked, phase, step, idx>> /\ Current' = Current
          /\ abandoned' = abandoned \/ abandoned' = abandoned \ {<<c, x>>}
      BY <1>13 DEF StrayActs, StrayEnds, driverVars, Current
    <2>2. CASE c = "upload"
      <3>1. \A f \in Flavor : Uploading(f)' => Uploading(f) /\ f # x
        BY <1>0, <1>13, <2>2, EndedUpload, StoppedUploads DEF StrayActs, StrayEnds
      <3>2. abandoned' = abandoned \ {<<c, x>>}
        BY <1>13, <2>2 DEF StrayActs, StrayEnds
      <3> QED
        BY <1>2, <2>1, <2>2, <3>1, <3>2 DEF OneUpload, AbandonedUpload
    <2>3. CASE c # "upload"
      <3>1. UNCHANGED snapshots
        BY <1>13, <2>3 DEF StrayActs, StrayEnds
      <3>2. \A f \in Flavor : AbandonedUpload(f)' <=> AbandonedUpload(f)
        BY <2>1, <2>3 DEF AbandonedUpload
      <3> QED
        BY <1>2, <2>1, <3>1, <3>2 DEF OneUpload, Uploading
    <2> QED
      BY <2>2, <2>3
  <1> QED
    <2>1. Interrupted => Unheard /\ linked' = FALSE
      BY DEF Interrupted
    <2> QED
      BY <2>1, <1>3, <1>4, <1>5, <1>6, <1>7, <1>8, <1>9, <1>10, <1>11, <1>12, <1>13
         DEF Next, Driver, Instance

(***************************************************************************)
(* Two uploads run at once only after the kill of an abandoned one failed: *)
(* kill_stale_coldsnap comes before the next flavor.                       *)
(***************************************************************************)
THEOREM UploadsAreSequential == Spec => []UploadsSequential
  <1>1. Init => UploadInv
    <2>1. Init => Uploads
      BY DEF Init, Uploads, OneUpload, Uploading, AbandonedUpload
    <2> QED
      BY <2>1, BuildInit DEF UploadInv
  <1>2. UploadInv /\ [Next]_vars => UploadInv'
    BY BuildStep, UploadStep DEF UploadInv
  <1>3. ASSUME UploadInv PROVE UploadsSequential
    <2> DEFINE S == {f \in DOMAIN snapshots : snapshots[f].state = "uploading"}
    <2> SUFFICES ASSUME ~killLost PROVE ~(Cardinality(S) > 1)
      BY DEF UploadsSequential
    <2>1. \A f \in S : f \in Flavor /\ Uploading(f)
      BY <1>3 DEF UploadInv, BuildInv, BuildTypeOK, Uploading
    <2>2. \A f, g \in S : f = g
      BY <1>3, <2>1 DEF UploadInv, Uploads, OneUpload
    <2>3. CASE S = {}
      BY <2>3, FS_EmptySet
    <2>4. CASE \E f : f \in S
      <3>1. PICK f : f \in S
        BY <2>4
      <3>2. S = {f}
        BY <2>2, <3>1
      <3> QED
        BY <3>2, FS_Singleton
    <2> QED
      BY <2>3, <2>4
  <1> QED
    BY <1>1, <1>2, <1>3, PTL DEF Spec
-----------------------------------------------------------------------------
(* Whose image and measurements a flavor gets, and which gates it passed.   *)

Failed(g) == g \in DOMAIN results /\ results[g] # "pass1-ok"
Reach(f) == {f} \cup LeftRunning("pull", f)

Gated(f) ==
  /\ kind[f] \notin IF AllowDebug THEN {"unsigned"} ELSE {"unsigned", "debug"}
  /\ kind[f] = "foreign" => LeftRunning("verify", f) # {}

\* Flavors with an image and PCR values they may have.
Fitting ==
  {r \in [flavor : Flavor, image : Flavor, pcr : Flavor] :
     {r.image, r.pcr} \subseteq Reach(r.flavor) /\ Gated(r.flavor)}

\* What pass 2 registers for the i-th captured snapshot.
Product(i) ==
  [flavor |-> captured[i].flavor, image |-> snapshots[captured[i].flavor].image,
   pcr |-> captured[i].pcr]

\* What the flavor under way can have met, and the gates behind it.
UnderWay ==
  /\ step # "reset" => {tree.image, tree.pcr} \subseteq Reach(Current) \cup {None}
  /\ step = "identity" => attestation \in {Current, None} \cup LeftRunning("verify", Current)
  /\ step \notin {"reset", "verify"} => kind[Current] # "unsigned"
  /\ step \notin {"reset", "verify", "identity"} =>
       (kind[Current] = "foreign" => LeftRunning("verify", Current) # {})
  /\ step \in {"pcr", "find", "upload"} => AllowDebug \/ kind[Current] # "debug"
  /\ step \in {"find", "upload"} => measured \in Reach(Current)
  /\ step = "upload" => snapshots[Current].image \in Reach(Current)

Own ==
  /\ \A r \in ranOn : Failed(r[2])
  /\ phase = "pass1" => UnderWay
  /\ \A i \in DOMAIN captured : Product(i) \in Fitting
  /\ amis \subseteq Fitting

OwnInv == LedgerInv /\ Own

\* The flavors that failed so far come before the one under way, and with them
\* what was left running of them.
LEMMA FailedIsBefore ==
  ASSUME LedgerInv, Own, phase = "pass1", NEW c \in Stray, NEW g \in Flavor, <<c, g>> \in ranOn
  PROVE  g \in LeftRunning(c, Current)
  <1>1. /\ idx \in DOMAIN Manifest /\ DOMAIN Manifest = 1..Len(Manifest)
        /\ DOMAIN results = Before(idx - 1)
    BY BuildAssumption DEF LedgerInv, BuildInv, BuildTypeOK, Ledger, Progress
  <1>2. \A i \in DOMAIN Manifest : Position(Manifest[i]) = i
    BY BuildAssumption DEF Position
  <1>3. g \in DOMAIN results
    BY DEF Own, Failed
  <1> QED
    BY <1>1, <1>2, <1>3 DEF Before, LeftRunning, Current

\* What a step leaves alone: the artifacts, the failures, and with them all
\* that a flavor was found fit for.
LEMMA FitKept ==
  ASSUME LedgerInv, [Next]_vars
  PROVE  /\ kind' = kind
         /\ \A g : Failed(g) => Failed(g)'
         /\ ranOn \subseteq ranOn'
         /\ Fitting \subseteq Fitting'
  <1>1. kind' = kind
    BY DEF Next, vars, Driver, Instance, Connect, ConnectFails, Install, InstallRetried,
           InstallFails, RemoteCommand, Capture, ApplicationFails, MeasurementsRaise,
           Interrupted, Reconnect, ReconnectFails, KillStaleColdsnap, KillFails,
           WaitForSnapshot, RegisterAmi, GenerateBuildResult, Pass2Fails, Return,
           HostDies, StrayActs, StrayEnds
  <1>2. \A g : Failed(g) => Failed(g)'
    BY ResultsKept DEF Failed
  <1>3. ranOn \subseteq ranOn'
    BY DEF Next, vars, hostVars, Driver, Instance, Connect, ConnectFails, Install,
           InstallRetried, InstallFails, RemoteCommand, Capture, ApplicationFails,
           MeasurementsRaise, Interrupted, Unheard, Reconnect, ReconnectFails,
           KillStaleColdsnap, KillFails, WaitForSnapshot, RegisterAmi,
           GenerateBuildResult, Pass2Fails, Return, HostDies, StrayActs, StrayEnds
  <1>4. \A c, f : LeftRunning(c, f) \subseteq LeftRunning(c, f)'
    BY <1>3 DEF LeftRunning
  <1>5. \A f : Reach(f) \subseteq Reach(f)' /\ (Gated(f) => Gated(f)')
    BY <1>1, <1>4 DEF Reach, Gated
  <1> QED
    BY <1>1, <1>2, <1>3, <1>5 DEF Fitting

\* The image of a captured snapshot stays what it is.
LEMMA ImagesKept ==
  ASSUME LedgerInv, [Next]_vars
  PROVE  \A i \in DOMAIN captured :
           snapshots'[captured[i].flavor].image = snapshots[captured[i].flavor].image
  <1>1. /\ \A i \in DOMAIN captured : captured[i].flavor \in DOMAIN snapshots
        /\ \A f \in DOMAIN snapshots :
             snapshots[f] \in [image : Flavor, state : {"uploading", "complete", "error"}]
    BY DEF LedgerInv, BuildInv, Places, BuildTypeOK
  <1>2. CASE \/ snapshots' = snapshots
             \/ \E fs : snapshots' = Stopped(fs)
             \/ \E f, s : snapshots' = [snapshots EXCEPT ![f].state = s]
    BY <1>1, <1>2 DEF Stopped
  <1>3. CASE RemoteCommand
    <2>1. phase = "pass1" /\ idx \in DOMAIN Manifest
      BY <1>3 DEF RemoteCommand, LedgerInv, BuildInv, BuildTypeOK
    <2>2. \A i \in DOMAIN captured : captured[i].flavor # Current
      BY <2>1, CurrentIsNew DEF LedgerInv, BuildInv, Ledger, Progress, Captures
    <2> QED
      BY <1>1, <1>3, <2>2 DEF RemoteCommand, Put
  <1>4. CASE Connect \/ ConnectFails \/ Install \/ InstallRetried \/ InstallFails
             \/ MeasurementsRaise \/ Reconnect \/ ReconnectFails \/ KillFails
             \/ WaitForSnapshot \/ RegisterAmi \/ GenerateBuildResult \/ Pass2Fails
             \/ Return \/ UNCHANGED vars
    <2>1. snapshots' = snapshots
      BY <1>4 DEF Connect, ConnectFails, Install, InstallRetried, InstallFails,
                  MeasurementsRaise, Reconnect, ReconnectFails, KillFails, WaitForSnapshot,
                  RegisterAmi, GenerateBuildResult, Pass2Fails, Return, vars
    <2> QED
      BY <1>2, <2>1
  <1>5. CASE Capture \/ ApplicationFails \/ Interrupted \/ KillStaleColdsnap
    BY <1>2, <1>5 DEF Capture, ApplicationFails, Interrupted, Unheard, KillStaleColdsnap
  <1>6. CASE Instance
    BY <1>2, <1>6 DEF Instance, HostDies, StrayActs, StrayEnds
  <1> QED
    BY <1>3, <1>4, <1>5, <1>6 DEF Next, Driver

LEMMA OwnStep == OwnInv /\ LedgerInv' /\ [Next]_vars => Own'
  <1> SUFFICES ASSUME OwnInv, LedgerInv', [Next]_vars PROVE Own'
    OBVIOUS
  <1> USE DEF OwnInv
  <1>0. BuildTypeOK /\ Places /\ BuildTypeOK'
    BY DEF LedgerInv, BuildInv
  <1>1. (\A r \in ranOn : Failed(r[2]))'
    <2>1. \A r \in ranOn : Failed(r[2])'
      BY FitKept DEF Own
    <2>2. CASE ranOn' = ranOn
      BY <2>1, <2>2
    <2>3. CASE ApplicationFails \/ Interrupted
      <3>1. \A g : g = Current => Failed(g)'
        <4>1. PICK r \in {"failed-application", "failed-transport-indeterminate"} :
                results' = Put(results, Current, r)
          BY <2>3 DEF ApplicationFails, Interrupted
        <4> QED
          BY <4>1 DEF Put, Failed
      <3>2. \A r \in ranOn' : r \in ranOn \/ r[2] = Current
        BY <2>3 DEF ApplicationFails, Interrupted, Unheard, hostVars
      <3> QED
        BY <2>1, <3>1, <3>2
    <2> QED
      BY <2>2, <2>3 DEF Next, vars, hostVars, Driver, Instance, Connect, ConnectFails, Install,
         InstallRetried, InstallFails, RemoteCommand, Capture, MeasurementsRaise, Reconnect,
         ReconnectFails, KillStaleColdsnap, KillFails, WaitForSnapshot, RegisterAmi,
         GenerateBuildResult, Pass2Fails, Return, HostDies, StrayActs, StrayEnds
  <1>2. phase' = "pass1" => UnderWay'
    <2>1. CASE RemoteCommand
      <3>1. /\ phase = "pass1" /\ Passes(step, Current) /\ step' = Following[step]
            /\ UNCHANGED <<kind, ranOn, idx>> /\ step \in Command \ {"upload"} /\ UnderWay
            /\ tree' = TreeAfter(step, Current)
            /\ attestation' = AttestationAfter(step, Current)
        BY <1>0, <2>1 DEF RemoteCommand, Places, Own
      <3>2. Current' = Current /\ Reach(Current)' = Reach(Current)
            /\ LeftRunning("verify", Current)' = LeftRunning("verify", Current)
        BY <3>1 DEF Current, Reach, LeftRunning
      <3>3. step' # "reset" /\ {tree'.image, tree'.pcr} \subseteq Reach(Current) \cup {None}
        BY <3>1, BuildAssumption DEF TreeAfter, UnderWay, Reach, Empty, Command, Following
      <3>4. /\ step' = "identity" => attestation' \in {Current, None} \cup LeftRunning("verify", Current)
            /\ step' # "verify" => kind[Current] # "unsigned"
        BY <3>1 DEF AttestationAfter, UnderWay, Command, Following, Passes
      <3>5. step' \notin {"verify", "identity"} =>
              (kind[Current] = "foreign" => LeftRunning("verify", Current) # {})
        BY <3>1 DEF UnderWay, Command, Following, Passes
      <3>6. step' \in {"pcr", "find", "upload"} => AllowDebug \/ kind[Current] # "debug"
        BY <3>1 DEF UnderWay, Command, Following, Passes
      <3>7. step' \in {"find", "upload"} => measured' \in Reach(Current)
        BY <2>1, <3>1 DEF RemoteCommand, UnderWay, Command, Following, Passes
      <3>8. step' = "upload" => snapshots'[Current].image \in Reach(Current)
        BY <2>1, <3>1 DEF RemoteCommand, UnderWay, Command, Following, Passes, Put
      <3> QED
        BY <3>1, <3>2, <3>3, <3>4, <3>5, <3>6, <3>7, <3>8 DEF UnderWay
    <2>2. CASE Instance
      <3> SUFFICES ASSUME phase = "pass1" PROVE UnderWay'
        BY <2>2 DEF Instance, HostDies, StrayActs, StrayEnds, driverVars
      <3>1. /\ UNCHANGED <<kind, ranOn, idx, step, measured>> /\ UnderWay
        BY <2>2 DEF Instance, HostDies, StrayActs, StrayEnds, driverVars, Own
      <3>2. Current' = Current /\ Reach(Current)' = Reach(Current)
            /\ LeftRunning("verify", Current)' = LeftRunning("verify", Current)
        BY <3>1 DEF Current, Reach, LeftRunning
      <3>3. \A c \in Stray, f \in Flavor : <<c, f>> \in abandoned => f \in LeftRunning(c, Current)
        BY <1>0, FailedIsBefore DEF BuildTypeOK
      <3>4. step # "reset" => {tree'.image, tree'.pcr} \subseteq Reach(Current) \cup {None}
        <4>1. CASE tree' = tree
          BY <3>1, <4>1 DEF UnderWay
        <4>2. ASSUME NEW c \in Stray, NEW f \in Flavor, StrayActs(c, f),
                     c \in {"pull", "reset", "verify"}
              PROVE  step # "reset" => {tree'.image, tree'.pcr} \subseteq Reach(Current) \cup {None}
          <5>1. c = "pull" => f \in Reach(Current)
            BY <3>3, <4>2 DEF StrayActs, Reach
          <5> QED
            BY <1>0, <3>1, <4>2, <5>1 DEF StrayActs, TreeAfter, UnderWay, Empty, BuildTypeOK
        <4> QED
          BY <2>2, <4>1, <4>2 DEF Instance, HostDies, StrayActs, StrayEnds, Stray
      <3>5. step = "identity" => attestation' \in {Current, None} \cup LeftRunning("verify", Current)
        <4>1. CASE attestation' = attestation
          BY <3>1, <4>1 DEF UnderWay
        <4>2. ASSUME NEW c \in Stray, NEW f \in Flavor, StrayActs(c, f)
              PROVE  step = "identity" => attestation' \in {Current, None} \cup LeftRunning("verify", Current)
          <5>1. c = "verify" => f \in LeftRunning("verify", Current)
            BY <3>3, <4>2 DEF StrayActs
          <5> QED
            BY <3>1, <4>2, <5>1 DEF StrayActs, AttestationAfter, UnderWay
        <4> QED
          BY <2>2, <4>1, <4>2 DEF Instance, HostDies, StrayEnds
      <3>6. step = "upload" => snapshots'[Current].image = snapshots[Current].image
        <4>1. step = "upload" => Current \in DOMAIN snapshots
          BY <1>0 DEF Places
        <4>2. \/ snapshots' = snapshots
              \/ \E fs : snapshots' = Stopped(fs)
              \/ \E f, s : snapshots' = [snapshots EXCEPT ![f].state = s]
          BY <2>2 DEF Instance, HostDies, StrayActs, StrayEnds
        <4>3. \A f \in DOMAIN snapshots :
                snapshots[f] \in [image : Flavor, state : {"uploading", "complete", "error"}]
          BY <1>0 DEF BuildTypeOK
        <4> QED
          BY <4>1, <4>2, <4>3 DEF Stopped
      <3> QED
        BY <3>1, <3>2, <3>4, <3>5, <3>6 DEF UnderWay
    <2>3. CASE UNCHANGED vars
      BY <2>3 DEF vars, driverVars, hostVars, Own, UnderWay, Reach, LeftRunning, Current
    <2>4. CASE Capture \/ ApplicationFails \/ KillStaleColdsnap \/ KillFails
      BY <2>4 DEF Capture, ApplicationFails, KillStaleColdsnap, KillFails, Advance, UnderWay
    <2>5. CASE Install
      BY <1>0, <2>5 DEF Install, Places, UnderWay
    <2> QED
      BY <2>1, <2>2, <2>3, <2>4, <2>5
         DEF Next, Driver, Connect, ConnectFails, InstallRetried, InstallFails, Abort,
             MeasurementsRaise, Interrupted, Reconnect, ReconnectFails, WaitForSnapshot,
             RegisterAmi, GenerateBuildResult, Pass2Fails, Return, Finishing, UnderWay
  <1>3. \A i \in DOMAIN captured' : Product(i)' \in Fitting'
    <2>1. \A i \in DOMAIN captured : captured'[i] = captured[i] => Product(i)' \in Fitting'
      BY FitKept, ImagesKept DEF Own, Product
    <2>2. CASE Capture
      <3>1. /\ phase = "pass1" /\ step = "upload" /\ UnderWay
            /\ captured' = Append(captured, [flavor |-> Current, pcr |-> measured])
            /\ snapshots' = [snapshots EXCEPT ![Current].state = "complete"]
            /\ Current \in DOMAIN snapshots
        BY <1>0, <2>2 DEF Capture, Own, Places
      <3>2. snapshots[Current] \in [image : Flavor, state : {"uploading", "complete", "error"}]
        BY <1>0, <3>1 DEF BuildTypeOK
      <3>3. snapshots'[Current].image = snapshots[Current].image
        BY <3>1, <3>2
      <3>4. [flavor |-> Current, image |-> snapshots[Current].image, pcr |-> measured] \in Fitting
        BY <1>0, <3>1, <3>2 DEF UnderWay, Fitting, Gated, Places, BuildTypeOK
      <3>5. \A i \in DOMAIN captured' :
              \/ i \in DOMAIN captured /\ captured'[i] = captured[i]
              \/ captured'[i] = [flavor |-> Current, pcr |-> measured]
        BY <1>0, <3>1 DEF BuildTypeOK
      <3>6. \A i : captured'[i] = [flavor |-> Current, pcr |-> measured]
              => Product(i)' = [flavor |-> Current, image |-> snapshots[Current].image,
                                pcr |-> measured]
        BY <3>3 DEF Product
      <3> QED
        BY <2>1, <3>4, <3>5, <3>6, FitKept
    <2>3. CASE captured' = captured
      BY <2>1, <2>3
    <2> QED
      BY <2>2, <2>3 DEF Next, vars, driverVars, Driver, Instance, Connect, ConnectFails,
         Install, InstallRetried, InstallFails, Abort, RemoteCommand, ApplicationFails,
         MeasurementsRaise, Interrupted, Reconnect, ReconnectFails, KillStaleColdsnap,
         KillFails, WaitForSnapshot, RegisterAmi, GenerateBuildResult, Pass2Fails, Return,
         HostDies, StrayActs, StrayEnds
  <1>4. amis' \subseteq Fitting'
    <2>1. CASE RegisterAmi \/ Pass2Fails
      <3>1. idx \in DOMAIN captured /\ amis' \subseteq amis \cup {Registered}
        BY <1>0, <2>1 DEF RegisterAmi, Pass2Fails, Finishing, BuildTypeOK
      <3>2. Registered \in Fitting
        BY <3>1 DEF Own, Registered, Entry, Product
      <3> QED
        BY <3>1, <3>2, FitKept DEF Own
    <2>2. CASE amis' = amis
      BY <2>2, FitKept DEF Own
    <2> QED
      BY <2>1, <2>2 DEF Next, vars, Driver, Instance, Connect, ConnectFails,
         Install, InstallRetried, InstallFails, RemoteCommand, Capture, ApplicationFails,
         MeasurementsRaise, Interrupted, Reconnect, ReconnectFails, KillStaleColdsnap,
         KillFails, WaitForSnapshot, GenerateBuildResult, Return,
         HostDies, StrayActs, StrayEnds
  <1> QED
    BY <1>1, <1>2, <1>3, <1>4 DEF Own

LEMMA OwnInvariant == Spec => []OwnInv
  <1>1. Init => Own
    BY DEF Init, Own, Places
  <1>2. OwnInv /\ LedgerInv' /\ [Next]_vars => OwnInv'
    BY OwnStep DEF OwnInv
  <1>3. Init => LedgerInv
    BY BuildInit, LedgerInit DEF LedgerInv
  <1>4. Init => OwnInv
    BY <1>1, <1>3 DEF OwnInv
  <1> QED
    BY <1>2, <1>4, LedgerInvariant, PTL DEF Spec

(***************************************************************************)
(* The image and the PCR values of an AMI come from its own flavor or from *)
(* an earlier one whose pull was left running when its link was lost, be   *)
(* it recorded as a transport or as an application failure.                *)
(***************************************************************************)
THEOREM ArtifactsAreOwn == Spec => []OwnArtifact
  <1>1. OwnInv => OwnArtifact
    BY DEF OwnInv, Own, OwnArtifact, Fitting, Reach
  <1> QED
    BY <1>1, OwnInvariant, PTL

(***************************************************************************)
(* No AMI carries the name of a flavor that failed a gate: the foreign one *)
(* passes only when an earlier flavor's verification was left running.     *)
(***************************************************************************)
THEOREM GatesAreHeld == Spec => []GatesHold
  <1>1. OwnInv => GatesHold
    BY DEF OwnInv, Own, GatesHold, Fitting, Gated
  <1> QED
    BY <1>1, OwnInvariant, PTL
-----------------------------------------------------------------------------
(* What the documents promise of every flavor, while the one command that  *)
(* can break the promise never runs on behind a lost transport.            *)

RunsOn(c) == \E f \in Flavor : <<c, f>> \in abandoned

OwnProducts ==
  {r \in [flavor : Flavor, image : Flavor, pcr : Flavor] :
     r.image = r.flavor /\ r.pcr = r.flavor}

\* The wipe leaves nothing of others, and only the flavor's own pull adds to it.
OwnTree ==
  /\ phase = "pass1" =>
       /\ step # "reset" => {tree.image, tree.pcr} \subseteq {Current, None}
       /\ step \in {"find", "upload"} => measured = Current
       /\ step = "upload" => snapshots[Current].image = Current
  /\ \A i \in DOMAIN captured : Product(i) \in OwnProducts
  /\ amis \subseteq OwnProducts

\* A stray command that is no pull leaves the tree alone or empties it.
LEMMA StraysKeepTree ==
  ASSUME BuildTypeOK, ~RunsOn("pull"), NEW c \in Stray, NEW f \in Flavor, StrayActs(c, f)
  PROVE  tree' \in {tree, Empty}
  BY DEF RunsOn, StrayActs, TreeAfter

\* The images of EBS stay what they are, but for the upload a command starts.
LEMMA SnapshotImages ==
  ASSUME BuildTypeOK, [Next]_vars, ~RemoteCommand, NEW g \in DOMAIN snapshots
  PROVE  snapshots'[g].image = snapshots[g].image
  <1>1. \/ snapshots' = snapshots
        \/ \E fs : snapshots' = Stopped(fs)
        \/ \E f, s : snapshots' = [snapshots EXCEPT ![f].state = s]
    BY DEF Next, vars, Driver, Instance, Connect, ConnectFails, Install,
           InstallRetried, InstallFails, Capture, ApplicationFails, MeasurementsRaise,
           Interrupted, Unheard, Reconnect, ReconnectFails, KillStaleColdsnap, KillFails,
           WaitForSnapshot, RegisterAmi, GenerateBuildResult, Pass2Fails, Return,
           HostDies, StrayActs, StrayEnds
  <1> QED
    BY <1>1 DEF BuildTypeOK, Stopped

\* Pass 1 stays with its flavor and its command, carries the command out, or
\* turns to the wipe of another flavor.
LEMMA Pass1Step ==
  ASSUME BuildInv, [Next]_vars, phase' = "pass1"
  PROVE  \/ RemoteCommand
         \/ phase = "pass1" /\ UNCHANGED driverVars /\ ~RemoteCommand
            /\ (UNCHANGED vars \/ Instance)
         \/ step' = "reset"
  <1>1. CASE Instance \/ UNCHANGED vars
    <2>1. UNCHANGED driverVars
      BY <1>1 DEF Instance, HostDies, StrayActs, StrayEnds, vars
    <2> QED
      BY <1>1, <2>1 DEF driverVars
  <1>2. CASE Driver
    BY <1>2 DEF BuildInv, Places, Driver, Connect, ConnectFails, Install, InstallRetried,
       InstallFails, Abort, Capture, ApplicationFails, MeasurementsRaise, Interrupted,
       Reconnect, ReconnectFails, KillStaleColdsnap, KillFails, WaitForSnapshot, RegisterAmi,
       GenerateBuildResult, Pass2Fails, Return, Finishing, Advance
  <1> QED
    BY <1>1, <1>2 DEF Next

\* What pass 1 captures is what it has under way, and the rest is kept.
LEMMA CapturedStep ==
  ASSUME BuildInv, [Next]_vars, NEW i \in DOMAIN captured'
  PROVE  \/ i \in DOMAIN captured /\ captured'[i] = captured[i]
         \/ Capture /\ captured'[i] = [flavor |-> Current, pcr |-> measured]
  <1>1. CASE Capture
    BY <1>1 DEF Capture, BuildInv, BuildTypeOK
  <1>2. CASE captured' = captured
    BY <1>2
  <1> QED
    BY <1>1, <1>2 DEF Next, vars, driverVars, Driver, Instance, Connect, ConnectFails,
       Install, InstallRetried, InstallFails, Abort, RemoteCommand, ApplicationFails,
       MeasurementsRaise, Interrupted, Reconnect, ReconnectFails, KillStaleColdsnap,
       KillFails, WaitForSnapshot, RegisterAmi, GenerateBuildResult, Pass2Fails, Return,
       HostDies, StrayActs, StrayEnds

\* Pass 2 registers the product of an entry it captured, and nothing else.
LEMMA AmisStep ==
  ASSUME BuildInv, [Next]_vars, NEW a \in amis'
  PROVE  a \in amis \/ \E i \in DOMAIN captured : a = Product(i)
  <1>1. CASE RegisterAmi \/ Pass2Fails
    <2>1. idx \in DOMAIN captured /\ amis' \subseteq amis \cup {Registered}
      BY <1>1 DEF RegisterAmi, Pass2Fails, Finishing, BuildInv, BuildTypeOK
    <2> QED
      BY <2>1 DEF Registered, Entry, Product
  <1>2. CASE amis' = amis
    BY <1>2
  <1> QED
    BY <1>1, <1>2 DEF Next, vars, Driver, Instance, Connect, ConnectFails,
       Install, InstallRetried, InstallFails, RemoteCommand, Capture, ApplicationFails,
       MeasurementsRaise, Interrupted, Reconnect, ReconnectFails, KillStaleColdsnap,
       KillFails, WaitForSnapshot, GenerateBuildResult, Return,
       HostDies, StrayActs, StrayEnds

LEMMA OwnTreeStep ==
  ASSUME LedgerInv, OwnTree, ~RunsOn("pull"), [Next]_vars
  PROVE  OwnTree'
  <1>0. BuildInv /\ BuildTypeOK /\ Places
    BY DEF LedgerInv, BuildInv
  <1>1. (phase = "pass1" =>
           /\ step # "reset" => {tree.image, tree.pcr} \subseteq {Current, None}
           /\ step \in {"find", "upload"} => measured = Current
           /\ step = "upload" => snapshots[Current].image = Current)'
    <2>1. CASE RemoteCommand
      <3>1. /\ phase = "pass1" /\ Passes(step, Current) /\ step' = Following[step]
            /\ Current' = Current /\ step \in Command \ {"upload"}
            /\ tree' = TreeAfter(step, Current)
        BY <1>0, <2>1 DEF RemoteCommand, Places, Current
      <3>2. step' # "reset" /\ {tree'.image, tree'.pcr} \subseteq {Current, None}
        BY <3>1, BuildAssumption DEF TreeAfter, OwnTree, Empty, Command, Following
      <3>3. step' \in {"find", "upload"} => measured' = Current
        BY <2>1, <3>1 DEF RemoteCommand, OwnTree, Command, Following, Passes
      <3>4. step' = "upload" => snapshots'[Current].image = Current
        BY <2>1, <3>1 DEF RemoteCommand, OwnTree, Command, Following, Passes, Put
      <3> QED
        BY <3>1, <3>2, <3>3, <3>4
    <2>2. CASE phase = "pass1" /\ UNCHANGED driverVars /\ ~RemoteCommand
               /\ (UNCHANGED vars \/ Instance)
      <3>1. Current' = Current /\ UNCHANGED <<step, measured>>
        BY <2>2 DEF driverVars, Current
      <3>2. tree' \in {tree, Empty}
        <4>1. \/ tree' = tree
              \/ \E c \in Stray, f \in Flavor : StrayActs(c, f)
          BY <2>2 DEF vars, hostVars, Instance, HostDies, StrayEnds
        <4> QED
          BY <1>0, <4>1, StraysKeepTree
      <3>3. step = "upload" => snapshots'[Current].image = snapshots[Current].image
        BY <1>0, <2>2, SnapshotImages DEF Places
      <3> QED
        BY <2>2, <3>1, <3>2, <3>3 DEF OwnTree, Empty
    <2>3. CASE step' = "reset"
      BY <2>3
    <2> QED
      BY <1>0, <2>1, <2>2, <2>3, Pass1Step
  <1>2. \A i \in DOMAIN captured : captured'[i] = captured[i] => Product(i)' \in OwnProducts
    BY ImagesKept DEF OwnTree, Product
  <1>3. \A i \in DOMAIN captured' : Product(i)' \in OwnProducts
    <2> SUFFICES ASSUME NEW i \in DOMAIN captured', Capture,
                        captured'[i] = [flavor |-> Current, pcr |-> measured]
                 PROVE  Product(i)' \in OwnProducts
      BY <1>0, <1>2, CapturedStep
    <2>1. /\ Current \in DOMAIN snapshots /\ Current \in Flavor
          /\ snapshots[Current].image = Current /\ measured = Current
      BY <1>0, CurrentIsFlavor DEF Capture, OwnTree, Places
    <2>2. snapshots'[Current].image = Current
      BY <1>0, <2>1, SnapshotImages DEF Capture, RemoteCommand
    <2>3. Product(i)' = [flavor |-> Current, image |-> Current, pcr |-> Current]
      BY <2>1, <2>2 DEF Product
    <2> QED
      BY <2>1, <2>3 DEF OwnProducts
  <1>4. amis' \subseteq OwnProducts
    BY <1>0, AmisStep DEF OwnTree
  <1> QED
    BY <1>1, <1>3, <1>4 DEF OwnTree, OwnProducts

(***************************************************************************)
(* "so every flavor builds from a known-empty tree" (spec.md:336) holds as *)
(* long as no oras pull runs on behind a lost transport: every other       *)
(* command may, any number of transports may drop and the host may die.    *)
(***************************************************************************)
THEOREM TreesAreOwn == Spec /\ []~RunsOn("pull") => []BuildsFromOwnTree
  <1>1. Init => OwnTree
    BY DEF Init, OwnTree
  <1>2. LedgerInv /\ OwnTree /\ ~RunsOn("pull") /\ [Next]_vars => OwnTree'
    BY OwnTreeStep
  <1>3. OwnTree => BuildsFromOwnTree
    BY DEF OwnTree, OwnProducts, BuildsFromOwnTree
  <1> QED
    BY <1>1, <1>2, <1>3, LedgerInvariant, PTL DEF Spec
-----------------------------------------------------------------------------
(* The same for the identity: attestation_result.json tells of the flavor's *)
(* own verification unless a stray one writes it.                          *)

OwnIdentity ==
  /\ phase = "pass1" =>
       /\ step = "identity" => attestation \in {Current, None}
       /\ step \notin {"reset", "verify", "identity"} => kind[Current] # "foreign"
  /\ \A i \in DOMAIN captured : kind[captured[i].flavor] # "foreign"

NoForeignAmi == \A a \in amis : kind[a.flavor] # "foreign"

LEMMA OwnIdentityStep ==
  ASSUME LedgerInv, OwnIdentity, ~RunsOn("verify"), [Next]_vars
  PROVE  OwnIdentity'
  <1>0. BuildInv /\ BuildTypeOK /\ Places
    BY DEF LedgerInv, BuildInv
  <1>1. kind' = kind
    BY FitKept
  <1>2. (phase = "pass1" =>
           /\ step = "identity" => attestation \in {Current, None}
           /\ step \notin {"reset", "verify", "identity"} => kind[Current] # "foreign")'
    <2>1. CASE RemoteCommand
      <3>1. /\ phase = "pass1" /\ Passes(step, Current) /\ step' = Following[step]
            /\ Current' = Current /\ step \in Command \ {"upload"}
            /\ attestation' = AttestationAfter(step, Current)
        BY <1>0, <2>1 DEF RemoteCommand, Places, Current
      <3>2. step' = "identity" => attestation' \in {Current, None}
        BY <3>1 DEF AttestationAfter, Command, Following
      <3>3. step' \notin {"reset", "verify", "identity"} => kind[Current] # "foreign"
        BY <3>1, BuildAssumption DEF OwnIdentity, Command, Following, Passes
      <3> QED
        BY <1>1, <3>1, <3>2, <3>3
    <2>2. CASE phase = "pass1" /\ UNCHANGED driverVars /\ ~RemoteCommand
               /\ (UNCHANGED vars \/ Instance)
      <3>1. Current' = Current /\ step' = step
        BY <2>2 DEF driverVars, Current
      <3>2. attestation' = attestation
        BY <2>2 DEF Instance, vars, hostVars, HostDies, StrayActs, StrayEnds, RunsOn,
                    AttestationAfter
      <3> QED
        BY <1>1, <2>2, <3>1, <3>2 DEF OwnIdentity
    <2>3. CASE step' = "reset"
      BY <2>3
    <2> QED
      BY <1>0, <2>1, <2>2, <2>3, Pass1Step
  <1>3. \A i \in DOMAIN captured' : kind[captured'[i].flavor] # "foreign"
    BY <1>0, CapturedStep DEF OwnIdentity, Capture
  <1> QED
    BY <1>1, <1>2, <1>3 DEF OwnIdentity

(***************************************************************************)
(* No AMI carries the name of a flavor another workflow attested, as long  *)
(* as no gh command runs on behind a lost transport (GatesHold leaves the  *)
(* case open in which an earlier flavor's command was left running).       *)
(***************************************************************************)
THEOREM IdentitiesAreOwn == Spec /\ []~RunsOn("verify") => []NoForeignAmi
  <1>1. Init => OwnIdentity /\ NoForeignAmi
    BY DEF Init, OwnIdentity, NoForeignAmi
  <1>2. LedgerInv /\ OwnIdentity /\ ~RunsOn("verify") /\ [Next]_vars => OwnIdentity'
    BY OwnIdentityStep
  <1>3. LedgerInv /\ OwnIdentity /\ NoForeignAmi /\ [Next]_vars => NoForeignAmi'
    <2> SUFFICES ASSUME LedgerInv, OwnIdentity, NoForeignAmi, [Next]_vars, NEW a \in amis'
                 PROVE  kind'[a.flavor] # "foreign"
      BY DEF NoForeignAmi
    <2>1. a \in amis \/ \E i \in DOMAIN captured : a = Product(i)
      BY AmisStep DEF LedgerInv
    <2> QED
      BY <2>1, FitKept DEF NoForeignAmi, OwnIdentity, Product
  <1> QED
    BY <1>1, <1>2, <1>3, LedgerInvariant, PTL DEF Spec
-----------------------------------------------------------------------------
(* The driver comes to an end: what is left to do only shrinks.            *)

Looping == phase \in {"pass1", "reconnect", "kill"}

StageLeft ==
  CASE phase = "connect" -> 5 [] phase = "install" -> 4 [] Looping -> 3
    [] phase = "pass2" -> 2   [] OTHER -> 1

\* Tools to install, flavors to build, snapshots to register.
ItemsLeft ==
  CASE phase = "install" -> Tools - tool
    [] Looping -> Len(Manifest) - idx
    [] phase = "pass2" -> Len(captured) + 1 - idx
    [] OTHER -> 0

\* Commands of a flavor, then its reconnect and kill; calls of a snapshot.
StepsLeft ==
  CASE phase = "pass1" ->
         (CASE step = "reset" -> 10 [] step = "verify" -> 9 [] step = "identity" -> 8
            [] step = "pull" -> 7   [] step = "files" -> 6  [] step = "debug" -> 5
            [] step = "pcr" -> 4    [] step = "find" -> 3   [] OTHER -> 2)
    [] phase = "reconnect" -> 1
    [] phase = "pass2" ->
         (CASE step = "wait" -> 2 [] step = "register" -> 1 [] OTHER -> 0)
    [] OTHER -> 0

TriesLeft ==
  CASE phase = "connect" -> ConnectAttempts - attempt
    [] phase = "install" -> InstallAttempts - attempt
    [] phase = "reconnect" -> ReconnectAttempts - attempt
    [] OTHER -> 0

\* The four numbers, most significant first, go down.
Closer ==
  \/ StageLeft' < StageLeft
  \/ /\ StageLeft' = StageLeft
     /\ \/ ItemsLeft' < ItemsLeft
        \/ /\ ItemsLeft' = ItemsLeft
           /\ \/ StepsLeft' < StepsLeft
              \/ StepsLeft' = StepsLeft /\ TriesLeft' < TriesLeft

\* No number goes below zero: every loop of the driver is bounded.
Bounded ==
  /\ phase \in {"connect", "install"} => tool <= Tools
  /\ phase = "connect" => attempt <= ConnectAttempts
  /\ phase = "install" => attempt <= InstallAttempts
  /\ phase = "reconnect" => attempt <= ReconnectAttempts
  /\ phase = "pass2" => idx <= Len(captured) + 1

LEMMA BoundedStep ==
  ASSUME BuildInv, BuildInv', Bounded, [Next]_vars
  PROVE  Bounded'
  <1>0. /\ attempt \in Nat /\ tool \in Nat /\ idx \in Nat \ {0} /\ Len(captured) \in Nat
        /\ Len(captured)' \in Nat /\ Tools \in Nat \ {0} /\ ConnectAttempts \in Nat \ {0}
        /\ InstallAttempts \in Nat \ {0} /\ ReconnectAttempts \in Nat \ {0}
    BY BuildAssumption DEF BuildInv, BuildTypeOK
  <1>1. CASE Connect \/ ConnectFails \/ Install \/ InstallRetried \/ InstallFails
    BY <1>0, <1>1 DEF Bounded, Connect, ConnectFails, Install, InstallRetried, InstallFails, Abort
  <1>2. CASE Capture \/ ApplicationFails \/ KillStaleColdsnap \/ KillFails
    <2>1. Advance
      BY <1>2 DEF Capture, ApplicationFails, KillStaleColdsnap, KillFails
    <2>2. phase' \in {"pass1", "pass2"} /\ (phase' = "pass2" => idx' = 1)
      BY <2>1 DEF Advance
    <2> QED
      BY <1>0, <2>2 DEF Bounded
  <1>3. CASE Interrupted \/ Reconnect \/ ReconnectFails \/ MeasurementsRaise \/ RemoteCommand
    BY <1>0, <1>3 DEF Bounded, Interrupted, Reconnect, ReconnectFails, MeasurementsRaise,
                      RemoteCommand, Abort
  <1>4. CASE WaitForSnapshot \/ RegisterAmi \/ GenerateBuildResult \/ Pass2Fails \/ Return
    BY <1>0, <1>4 DEF Bounded, WaitForSnapshot, RegisterAmi, GenerateBuildResult, Pass2Fails,
                      Return, Finishing, NextCaptured
  <1>5. CASE Instance \/ UNCHANGED vars
    <2>1. UNCHANGED driverVars
      BY <1>5 DEF Instance, HostDies, StrayActs, StrayEnds, vars
    <2> QED
      BY <2>1 DEF Bounded, driverVars
  <1> QED
    BY <1>1, <1>2, <1>3, <1>4, <1>5 DEF Next, Driver

LEMMA BoundedLeft ==
  ASSUME BuildInv, Bounded
  PROVE  StageLeft \in Nat /\ ItemsLeft \in Nat /\ StepsLeft \in Nat /\ TriesLeft \in Nat
  <1>0. /\ attempt \in Nat /\ tool \in Nat /\ idx \in Nat \ {0} /\ Len(captured) \in Nat
        /\ Len(Manifest) \in Nat /\ (Looping => idx <= Len(Manifest))
        /\ Tools \in Nat /\ ConnectAttempts \in Nat /\ InstallAttempts \in Nat
        /\ ReconnectAttempts \in Nat
    BY BuildAssumption DEF BuildInv, BuildTypeOK, Looping
  <1>1. StageLeft \in Nat /\ StepsLeft \in Nat
    BY DEF StageLeft, StepsLeft
  <1>2. ItemsLeft \in Nat
    <2>1. CASE phase = "install"
      BY <1>0, <2>1 DEF ItemsLeft, Bounded
    <2>2. CASE Looping
      BY <1>0, <2>2 DEF ItemsLeft, Looping
    <2>3. CASE phase = "pass2"
      BY <1>0, <2>3 DEF ItemsLeft, Bounded, Looping
    <2> QED
      BY <2>1, <2>2, <2>3 DEF ItemsLeft
  <1>3. TriesLeft \in Nat
    <2>1. CASE phase = "connect"
      BY <1>0, <2>1 DEF TriesLeft, Bounded
    <2>2. CASE phase = "install"
      BY <1>0, <2>2 DEF TriesLeft, Bounded
    <2>3. CASE phase = "reconnect"
      BY <1>0, <2>3 DEF TriesLeft, Bounded
    <2> QED
      BY <2>1, <2>2, <2>3 DEF TriesLeft
  <1> QED
    BY <1>1, <1>2, <1>3

LEMMA AdvanceIsCloser ==
  ASSUME BuildInv, Looping, Advance
  PROVE  Closer
  <1>1. idx \in Nat /\ Len(Manifest) \in Nat
    BY BuildAssumption DEF BuildInv, BuildTypeOK
  <1>2. CASE idx < Len(Manifest)
    <2>1. phase' = "pass1" /\ idx' = idx + 1
      BY <1>2 DEF Advance
    <2>2. StageLeft' = StageLeft /\ ItemsLeft' < ItemsLeft
      BY <1>1, <2>1 DEF StageLeft, ItemsLeft, Looping
    <2> QED
      BY <2>2 DEF Closer
  <1>3. CASE ~(idx < Len(Manifest))
    <2>1. StageLeft' < StageLeft
      BY <1>3 DEF Advance, StageLeft, Looping
    <2> QED
      BY <2>1 DEF Closer
  <1> QED
    BY <1>2, <1>3

LEMMA DriverIsCloser ==
  ASSUME BuildInv, Driver
  PROVE  Closer
  <1>0. /\ attempt \in Nat /\ tool \in Nat /\ idx \in Nat \ {0} /\ Len(captured) \in Nat
        /\ (phase = "pass1" => step \in Command) /\ Tools \in Nat /\ ConnectAttempts \in Nat
        /\ InstallAttempts \in Nat /\ ReconnectAttempts \in Nat
    BY BuildAssumption DEF BuildInv, BuildTypeOK, Places
  <1>1. CASE Connect \/ InstallFails \/ MeasurementsRaise \/ Return
    <2>1. StageLeft' < StageLeft
      BY <1>1 DEF Connect, InstallFails, MeasurementsRaise, Return, Abort, StageLeft, Looping
    <2> QED
      BY <2>1 DEF Closer
  <1>2. CASE ConnectFails
    BY <1>0, <1>2 DEF ConnectFails, Abort, Closer, StageLeft, ItemsLeft, StepsLeft,
                      TriesLeft, Looping
  <1>3. CASE Install \/ InstallRetried
    <2>1. CASE Install
      BY <1>0, <2>1 DEF Install, Closer, StageLeft, ItemsLeft, StepsLeft, TriesLeft, Looping
    <2>2. CASE InstallRetried
      BY <1>0, <2>2 DEF InstallRetried, Closer, StageLeft, ItemsLeft, StepsLeft, TriesLeft, Looping
    <2> QED
      BY <1>3, <2>1, <2>2
  <1>4. CASE RemoteCommand
    <2>1. /\ phase = "pass1" /\ step \in Command \ {"upload"} /\ step' = Following[step]
          /\ UNCHANGED <<phase, idx>>
      BY <1>0, <1>4 DEF RemoteCommand
    <2>2. StepsLeft' < StepsLeft
      BY <2>1 DEF StepsLeft, Following, Command
    <2>3. StageLeft' = StageLeft /\ ItemsLeft' = ItemsLeft
      BY <2>1 DEF StageLeft, ItemsLeft, Looping
    <2> QED
      BY <2>2, <2>3 DEF Closer
  <1>5. CASE Capture \/ ApplicationFails \/ KillStaleColdsnap \/ KillFails
    BY <1>5, AdvanceIsCloser DEF Capture, ApplicationFails, KillStaleColdsnap, KillFails, Looping
  <1>6. CASE Interrupted \/ Reconnect
    BY <1>6 DEF Interrupted, Reconnect, Closer, StageLeft, ItemsLeft, StepsLeft, Looping
  <1>7. CASE ReconnectFails
    BY <1>0, <1>7 DEF ReconnectFails, Closer, StageLeft, ItemsLeft, StepsLeft, TriesLeft, Looping
  <1>8. CASE WaitForSnapshot \/ RegisterAmi
    BY <1>8 DEF WaitForSnapshot, RegisterAmi, Finishing, Closer, StageLeft, ItemsLeft,
                StepsLeft, Looping
  <1>9. CASE GenerateBuildResult \/ Pass2Fails
    BY <1>0, <1>9 DEF GenerateBuildResult, Pass2Fails, Finishing, NextCaptured, Closer,
                      StageLeft, ItemsLeft, Looping
  <1> QED
    BY <1>1, <1>2, <1>3, <1>4, <1>5, <1>6, <1>7, <1>8, <1>9 DEF Driver

(***************************************************************************)
(* What DriverEnds rests on besides fairness: every step of the driver     *)
(* lowers one of four numbers that no step of the instance raises, so that *)
(* retries, reconnects and flavors cannot keep it busy for ever.           *)
(***************************************************************************)
THEOREM DriverAdvances ==
  Spec => /\ [](StageLeft \in Nat /\ ItemsLeft \in Nat /\ StepsLeft \in Nat /\ TriesLeft \in Nat)
          /\ [][\/ Driver /\ Closer
               \/ UNCHANGED <<StageLeft, ItemsLeft, StepsLeft, TriesLeft>>]_vars
  <1>1. Init => Bounded
    BY BuildAssumption DEF Init, Bounded
  <1>2. BuildInv /\ BuildInv' /\ Bounded /\ [Next]_vars => Bounded'
    BY BoundedStep
  <1>3. BuildInv /\ Bounded =>
          StageLeft \in Nat /\ ItemsLeft \in Nat /\ StepsLeft \in Nat /\ TriesLeft \in Nat
    BY BoundedLeft
  <1>4. BuildInv /\ [Next]_vars =>
          [\/ Driver /\ Closer
           \/ UNCHANGED <<StageLeft, ItemsLeft, StepsLeft, TriesLeft>>]_vars
    <2>1. Instance => UNCHANGED <<StageLeft, ItemsLeft, StepsLeft, TriesLeft>>
      BY DEF Instance, HostDies, StrayActs, StrayEnds, driverVars, StageLeft, ItemsLeft,
             StepsLeft, TriesLeft, Looping
    <2> QED
      BY <2>1, DriverIsCloser DEF Next
  <1> QED
    BY <1>1, <1>2, <1>3, <1>4, BuildInvariant, PTL DEF Spec
=============================================================================
