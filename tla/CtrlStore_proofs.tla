---------------------------- MODULE CtrlStore_proofs ----------------------------
(***************************************************************************)
(* Proofs about the open-platform client, for all sets of keys and values. *)
(* The inductive invariant is the conjunction of the four invariants that  *)
(* CtrlStoreSafety checks: a deleted key stays away because its entry is   *)
(* no alias (LinksAreSound), and a successful write sends it away again    *)
(* because it sends the tree (Synced).                                     *)
(***************************************************************************)
EXTENDS CtrlStore, TLAPS

Trees == Docs \cup {NullDoc}
Items == Docs \cup {NullDoc, NoItem}
Entries == [Keys -> Values \cup {Nil, None, Linked}]

\* Which of the sets and markers differ.
LEMMA Distinct ==
    /\ None \notin Values /\ None # Nil /\ None # Linked
    /\ Nil \notin Values /\ Nil # Linked
    /\ Linked \notin Values
    /\ NullDoc \notin Docs /\ NullDoc # NoItem
    /\ NoItem \notin Docs
BY DistinctAssumption

\* A field of a document is a value, null or nothing.
LEMMA FieldType ==
    ASSUME NEW doc, NEW k \in Keys
    PROVE  Field(doc, k) \in Values \cup {Nil, None}
BY DEF Field, Docs

\* The documents the operations build are documents, and differ from the tree
\* in the leaf of the key alone.
With(doc, k, v) == [doc EXCEPT ![k] = v]

LEMMA SetLeaf ==
    ASSUME NEW doc \in Docs, NEW k \in Keys, NEW v \in Values \cup {Nil, None}
    PROVE  /\ With(doc, k, v) \in Docs
           /\ Field(With(doc, k, v), k) = v
           /\ \A j \in Keys \ {k} : Field(With(doc, k, v), j) = Field(doc, j)
<1>1. With(doc, k, v) \in Docs
  BY DEF Docs, With
<1>2. With(doc, k, v)[k] = v /\ \A j \in Keys \ {k} : With(doc, k, v)[j] = doc[j]
  BY DEF Docs, With
<1> QED BY <1>1, <1>2 DEF Field

LEMMA OnlyLeaf ==
    ASSUME NEW k \in Keys, NEW v \in Values \cup {Nil, None}
    PROVE  /\ Only(k, v) \in Docs
           /\ Field(Only(k, v), k) = v
           /\ \A j \in Keys \ {k} : Field(Only(k, v), j) = None
<1>1. Only(k, v) \in Docs
  BY DEF Only, Docs
<1>2. Only(k, v)[k] = v /\ \A j \in Keys \ {k} : Only(k, v)[j] = None
  BY DEF Only
<1> QED BY <1>1, <1>2 DEF Field

\* A null document has no leaves, and a tree with a leaf is a document.
LEMMA NullHasNoFields ==
    \A k \in Keys : Field(NullDoc, k) = None /\ Field(NoItem, k) = None
BY Distinct DEF Field

LEMMA LeafInDocument ==
    ASSUME NEW k, HasLeaf(k)
    PROVE  tree \in Docs /\ tree[k] \in Values
BY Distinct DEF HasLeaf, Field

\* What an entry shows is not an alias, when aliases are sound.
LEMMA ShownType ==
    ASSUME entry \in Entries, LinksAreSound, NEW k \in Keys
    PROVE  /\ Shown(k) \in Values \cup {Nil, None}
           /\ Shown(k) = None => entry[k] = None
           /\ entry[k] # None => Shown(k) # None
<1>1. CASE entry[k] = Linked
  <2>1. HasLeaf(k)
    BY <1>1 DEF LinksAreSound
  <2>2. tree[k] \in Values
    BY <2>1, LeafInDocument
  <2> QED BY <1>1, <2>2, Distinct DEF Shown
<1>2. CASE entry[k] # Linked
  <2>1. entry[k] \in Values \cup {Nil, None}
    BY <1>2 DEF Entries
  <2> QED BY <1>2, <2>1 DEF Shown
<1> QED BY <1>1, <1>2

\* What PUT and POST may do.
LEMMA PutStep ==
    ASSUME TypeOK, NEW doc \in Trees, NEW op, NEW k, NEW v, Put(doc, op, k, v)
    PROVE  /\ content' \in Items
           /\ content' \in {content, doc}
           /\ dirty' \in BOOLEAN /\ foreign' \in BOOLEAN
           /\ faults' \in 0..MaxFaults
           /\ last'.ok \in BOOLEAN
           /\ last'.key = k
           /\ last'.ok => ~dirty'
           /\ ~dirty' => content' = doc
<1> USE DEF TypeOK, Put, Items, Trees
<1>1. content' \in {content, doc}
  OBVIOUS
<1>2. content' \in Items
  BY <1>1
<1>3. dirty' \in BOOLEAN /\ foreign' \in BOOLEAN
  OBVIOUS
<1>4. faults' \in 0..MaxFaults
  <2>1. UNCHANGED faults \/ Fault
    BY Zenon DEF Put
  <2>2. faults \in 0..MaxFaults
    OBVIOUS
  <2> QED BY <2>1, <2>2, BoundAssumption DEF Fault
<1>5. last'.ok \in BOOLEAN /\ last'.key = k
  <2>1. PICK ok \in BOOLEAN : Returns(op, k, v, ok)
    BY Zenon DEF Put
  <2> QED BY <2>1 DEF Returns
<1>6. (last'.ok => ~dirty') /\ (~dirty' => content' = doc)
  BY DEF Returns
<1> QED BY <1>1, <1>2, <1>3, <1>4, <1>5, <1>6

LEMMA PostStep ==
    ASSUME TypeOK, NEW doc \in Docs, NEW k, NEW v, Post(doc, k, v)
    PROVE  /\ content' \in Items
           /\ content' \in {content, doc}
           /\ content' # content => content = NoItem
           /\ tree' \in Trees
           /\ tree' \in {tree, doc}
           /\ dirty' \in BOOLEAN /\ foreign' \in BOOLEAN
           /\ faults' \in 0..MaxFaults
           /\ last'.ok \in BOOLEAN
           /\ last'.key = k
           /\ ~dirty' => content' = doc /\ tree' = doc
<1> USE DEF TypeOK, Post, Items, Trees
<1>1. content' \in {content, doc} /\ tree' \in {tree, doc}
  OBVIOUS
<1>2. content' \in Items /\ tree' \in Trees
  BY <1>1
<1>3. content' # content => content = NoItem
  OBVIOUS
<1>4. dirty' \in BOOLEAN /\ foreign' \in BOOLEAN
  OBVIOUS
<1>5. faults' \in 0..MaxFaults
  <2>1. UNCHANGED faults \/ Fault
    BY Zenon DEF Post
  <2>2. faults \in 0..MaxFaults
    OBVIOUS
  <2> QED BY <2>1, <2>2, BoundAssumption DEF Fault
<1>6. last'.ok \in BOOLEAN /\ last'.key = k
  <2>1. PICK ok \in BOOLEAN : Returns("add", k, v, ok)
    BY Zenon DEF Post
  <2> QED BY <2>1 DEF Returns
<1>7. ~dirty' => content' = doc /\ tree' = doc
  OBVIOUS
<1> QED BY <1>1, <1>2, <1>3, <1>4, <1>5, <1>6, <1>7

\* The tree that setConfig sends.
Written(k, v) == IF HasLeaf(k) THEN [tree EXCEPT ![k] = v] ELSE tree

LEMMA WrittenTree ==
    ASSUME tree \in Trees, NEW k \in Keys, NEW v \in Values
    PROVE  /\ Written(k, v) \in Trees
           /\ \A j \in Keys \ {k} : Field(Written(k, v), j) = Field(tree, j)
           /\ HasLeaf(k) => Field(Written(k, v), k) = v
           /\ ~HasLeaf(k) => Written(k, v) = tree
<1>1. CASE HasLeaf(k)
  <2>1. tree \in Docs
    BY <1>1, LeafInDocument
  <2>2. Written(k, v) = With(tree, k, v)
    BY <1>1, Zenon DEF Written, With
  <2>3. /\ Written(k, v) \in Docs
        /\ Field(Written(k, v), k) = v
        /\ \A j \in Keys \ {k} : Field(Written(k, v), j) = Field(tree, j)
    BY <2>1, <2>2, SetLeaf
  <2> QED BY <1>1, <2>3 DEF Trees
<1>2. CASE ~HasLeaf(k)
  BY <1>2 DEF Written
<1> QED BY <1>1, <1>2

\* The tree that deleteConfig sends.
LEMMA PrunedTree ==
    ASSUME tree \in Trees, NEW k \in Keys
    PROVE  /\ Pruned(k) \in Trees
           /\ \A j \in Keys \ {k} : Field(Pruned(k), j) = Field(tree, j)
           /\ Field(Pruned(k), k) \notin Values
<1>1. CASE HasLeaf(k)
  <2>1. tree \in Docs
    BY <1>1, LeafInDocument
  <2>2. Pruned(k) = With(tree, k, None)
    BY <1>1, Zenon DEF Pruned, With
  <2>3. /\ Pruned(k) \in Docs
        /\ Field(Pruned(k), k) = None
        /\ \A j \in Keys \ {k} : Field(Pruned(k), j) = Field(tree, j)
    BY <2>1, <2>2, SetLeaf
  <2> QED BY <1>1, <2>3, Distinct DEF Trees
<1>2. CASE ~HasLeaf(k)
  BY <1>2 DEF Pruned, HasLeaf
<1> QED BY <1>1, <1>2

-----------------------------------------------------------------------------
(* What each operation leaves of the yaml namespace.                       *)

\* Types, and aliases that alias a leaf: inductive together.
Sound == TypeOK /\ LinksAreSound

\* setConfig and addNewConfig of a key that g_map has.
LEMMA ChangeStep ==
    ASSUME Sound, NEW op, NEW k \in Keys, NEW v \in Values, Change(op, k, v)
    PROVE  /\ tree' = Written(k, v) /\ tree' \in Trees
           /\ entry' \in Entries
           /\ entry'[k] = IF HasLeaf(k) THEN Linked ELSE v
           /\ \A j \in Keys \ {k} : entry'[j] = entry[j]
           /\ Put(tree', op, k, v)
<1>1. tree' = Written(k, v) /\ Put(tree', op, k, v)
  BY DEF Change, Written
<1>2. tree' \in Trees
  BY <1>1, WrittenTree DEF Sound, TypeOK, Trees
<1>3. entry' = [entry EXCEPT ![k] = IF HasLeaf(k) THEN Linked ELSE v]
  BY DEF Change
<1>4. entry \in Entries
  BY DEF Sound, TypeOK, Entries
<1>5. /\ entry' \in Entries
      /\ entry'[k] = IF HasLeaf(k) THEN Linked ELSE v
      /\ \A j \in Keys \ {k} : entry'[j] = entry[j]
  BY <1>3, <1>4 DEF Entries
<1> QED BY <1>1, <1>2, <1>5

\* What deleteConfig does to the maps, whether it returns or throws.
LEMMA PruneStep ==
    ASSUME Sound, NEW k \in Keys, tree' = Pruned(k),
           entry' = [entry EXCEPT ![k] = Shown(k)]
    PROVE  /\ tree' \in Trees
           /\ entry' \in Entries
           /\ entry'[k] \in Values \cup {Nil, None}
           /\ entry[k] # None => entry'[k] # None
           /\ \A j \in Keys \ {k} : entry'[j] = entry[j]
<1>1. entry \in Entries /\ LinksAreSound
  BY DEF Sound, TypeOK, Entries
<1>2. Shown(k) \in Values \cup {Nil, None} /\ (entry[k] # None => Shown(k) # None)
  BY <1>1, ShownType
<1>3. tree' \in Trees
  BY PrunedTree DEF Sound, TypeOK, Trees
<1>4. entry'[k] = Shown(k) /\ \A j \in Keys \ {k} : entry'[j] = entry[j]
  BY <1>1 DEF Entries
<1>5. entry' \in Entries
  BY <1>1, <1>2 DEF Entries
<1> QED BY <1>2, <1>3, <1>4, <1>5

\* The maps after init.
LEMMA LoadStep ==
    ASSUME Sound, LoadYaml
    PROVE  /\ tree' \in Trees
           /\ entry' \in Entries
           /\ \A k \in Keys : entry'[k] = Linked => Field(tree', k) \in Values
<1>1. tree' \in Trees
  BY DEF LoadYaml, Document, Sound, TypeOK, Trees
<1>2. entry' = Parsed(content)
  BY DEF LoadYaml
<1>3. \A k \in Keys : Field(tree', k) = Field(content, k)
  BY NullHasNoFields DEF LoadYaml, Document
<1>4. ASSUME NEW k \in Keys
      PROVE  /\ entry'[k] \in Values \cup {Nil, None, Linked}
             /\ entry'[k] = Linked => Field(tree', k) \in Values
  <2>1. entry'[k] = IF Field(content, k) = None THEN Shown(k)
                    ELSE IF Field(content, k) = Nil THEN Nil ELSE Linked
    BY <1>2 DEF Parsed
  <2>2. Shown(k) \in Values \cup {Nil, None}
    BY ShownType DEF Sound, TypeOK, Entries
  <2>3. Field(content, k) \in Values \cup {Nil, None}
    BY FieldType
  <2> QED BY <2>1, <2>2, <2>3, <1>3, Distinct
<1>5. entry' \in Entries
  BY <1>2, <1>4 DEF Entries, Parsed
<1> QED BY <1>1, <1>4, <1>5

-----------------------------------------------------------------------------
(* Types and aliases.                                                      *)

\* Every step of the specification is one of these.
LEMMA NextCases ==
    ASSUME Next
    PROVE  \/ Load \/ LoadFails
           \/ \E k \in Keys : DeleteConfig(k) \/ DeleteLast(k) \/ DeleteUnknown(k)
           \/ \E k \in PropertyKeys : DeleteProperty(k)
           \/ \E k \in Keys, v \in Values :
                 \/ SetConfig(k, v) \/ SetUnknown(k, v) \/ AddExisting(k, v)
                 \/ AddToTree(k, v) \/ AddFirst(k, v) \/ AddNowhere(k, v)
           \/ \E k \in PropertyKeys, v \in Values : SetProperty(k, v) \/ AddProperty(k, v)
           \/ \E k \in Keys, v \in Values \cup {None} : Edit(k, v)
BY Zenon DEF Next, Delete, Write

\* The yaml namespace of this client is left alone: by the calls that are
\* refused, by the properties namespace, and by what others do.
Elsewhere == UNCHANGED <<tree, entry, loaded, dirty>>

LEMMA Aside ==
    \/ \E k \in Keys : DeleteUnknown(k)
    \/ \E k \in PropertyKeys : DeleteProperty(k)
    \/ \E k \in Keys, v \in Values : SetUnknown(k, v) \/ AddNowhere(k, v)
    \/ \E k \in PropertyKeys, v \in Values : SetProperty(k, v) \/ AddProperty(k, v)
    \/ UNCHANGED vars
    => Elsewhere /\ UNCHANGED <<content, foreign, deleted>>
BY DEF DeleteUnknown, DeleteProperty, SetUnknown, AddNowhere, SetProperty,
       AddProperty, Elsewhere, store, history, external, vars

\* The variables of the properties namespace, the history and the bounds.
RestOK ==
    /\ items \in [PropertyKeys -> Values \cup {None}]
    /\ loaded \in BOOLEAN
    /\ prop \in [PropertyKeys -> Values \cup {None}]
    /\ deleted \subseteq Keys
    /\ edits \in 0..MaxEdits

\* Those of the yaml namespace, with what the last call returned.
YamlOK ==
    /\ content \in Items
    /\ tree \in Trees
    /\ entry \in Entries
    /\ last.ok \in BOOLEAN
    /\ dirty \in BOOLEAN /\ foreign \in BOOLEAN
    /\ faults \in 0..MaxFaults

LEMMA TypeParts == TypeOK <=> RestOK /\ YamlOK
BY DEF TypeOK, RestOK, YamlOK, Items, Trees, Entries

LEMMA TypePartsNext == TypeOK' <=> RestOK' /\ YamlOK'
BY DEF TypeOK, RestOK, YamlOK, Items, Trees, Entries

\* setConfig and addNewConfig keep the types of everything else.
LEMMA WriteRest ==
    ASSUME RestOK, NEW k \in Keys, NEW v \in Values,
           SetConfig(k, v) \/ AddExisting(k, v) \/ AddToTree(k, v) \/ AddFirst(k, v)
    PROVE  RestOK' /\ deleted' = deleted
BY DEF RestOK, SetConfig, AddExisting, AddToTree, AddFirst

\* init, whether it returns or an exception ends it: each namespace is loaded or
\* stays as it was, and the portal is only read.
LEMMA LoadCases ==
    ASSUME Load \/ LoadFails
    PROVE  /\ LoadYaml \/ UNCHANGED <<loaded, tree, entry, history>>
           /\ LoadProperties \/ UNCHANGED prop
           /\ UNCHANGED faults \/ Fault
           /\ last' = Nothing
           /\ UNCHANGED <<content, items, edits>>
BY DEF Load, LoadFails, external

\* Setting an entry: aliases stay sound, for a new alias is of a leaf that is there.
LEMMA ChangeSound ==
    ASSUME Sound, NEW op, NEW k \in Keys, NEW v \in Values, Change(op, k, v)
    PROVE  YamlOK' /\ LinksAreSound'
<1>1. /\ tree' = Written(k, v) /\ tree' \in Trees
      /\ entry' \in Entries
      /\ entry'[k] = IF HasLeaf(k) THEN Linked ELSE v
      /\ \A j \in Keys \ {k} : entry'[j] = entry[j]
      /\ Put(tree', op, k, v)
  BY ChangeStep
<1>2. YamlOK'
  BY <1>1, PutStep DEF YamlOK, Sound
<1>3. tree \in Trees
  BY DEF Sound, TypeOK, Trees
<1>4. ASSUME NEW j \in Keys, entry'[j] = Linked  PROVE Field(tree', j) \in Values
  <2>1. CASE j = k
    <3>1. HasLeaf(k)
      BY <1>1, <1>4, <2>1, Distinct
    <3> QED BY <1>1, <1>3, <2>1, <3>1, WrittenTree
  <2>2. CASE j # k
    <3>1. entry[j] = Linked
      BY <1>1, <1>4, <2>2
    <3>2. Field(tree, j) \in Values
      BY <3>1 DEF Sound, LinksAreSound, HasLeaf
    <3>3. Field(tree', j) = Field(tree, j)
      BY <1>1, <1>3, <2>2, WrittenTree
    <3> QED BY <3>2, <3>3
  <2> QED BY <2>1, <2>2
<1>5. LinksAreSound'
  BY <1>4 DEF LinksAreSound, HasLeaf
<1> QED BY <1>2, <1>5

\* Adding a key: no entry changes, and the tree gains a leaf.
LEMMA AddSound ==
    ASSUME Sound, NEW k \in Keys, NEW v \in Values, AddToTree(k, v) \/ AddFirst(k, v)
    PROVE  /\ YamlOK' /\ LinksAreSound'
           /\ \A j \in Keys \ {k} : Field(tree', j) = Field(tree, j)
           /\ content' = content \/ \A j \in Keys \ {k} : Field(content', j) = Field(tree, j)
<1>1. entry' = entry /\ entry[k] = None /\ entry \in Entries /\ tree \in Trees
  BY DEF Sound, TypeOK, Entries, Trees, AddToTree, AddFirst, KeyExist
<1>2. /\ tree' \in Trees
      /\ \A j \in Keys \ {k} : Field(tree', j) = Field(tree, j)
      /\ content' = content \/ \A j \in Keys \ {k} : Field(content', j) = Field(tree, j)
      /\ YamlOK'
  <2>1. CASE AddToTree(k, v)
    <3>1. tree \in Docs
      BY <1>1, <2>1 DEF AddToTree, Trees
    <3>2. tree' = With(tree, k, v)
      BY <2>1 DEF AddToTree, With
    <3>3. tree' \in Trees /\ \A j \in Keys \ {k} : Field(tree', j) = Field(tree, j)
      BY <3>1, <3>2, SetLeaf DEF Trees
    <3>4. Put(tree', "add", k, v)
      BY <2>1 DEF AddToTree
    <3>5. YamlOK' /\ content' \in {content, tree'}
      BY <1>1, <3>3, <3>4, PutStep DEF YamlOK, Sound
    <3> QED BY <3>3, <3>5
  <2>2. CASE AddFirst(k, v)
    <3>1. tree = NullDoc /\ Post(Only(k, v), k, v)
      BY <2>2 DEF AddFirst
    <3>2. /\ Only(k, v) \in Docs
          /\ \A j \in Keys \ {k} : Field(Only(k, v), j) = None
      BY OnlyLeaf
    <3>3. \A j \in Keys : Field(tree, j) = None
      BY <3>1, NullHasNoFields
    <3>4. /\ content' \in {content, Only(k, v)} /\ tree' \in {tree, Only(k, v)}
          /\ tree' \in Trees
          /\ YamlOK'
      BY <1>1, <3>1, <3>2, PostStep DEF YamlOK, Sound
    <3> QED BY <3>2, <3>3, <3>4
  <2> QED BY <2>1, <2>2
<1>3. ASSUME NEW j \in Keys, entry'[j] = Linked  PROVE Field(tree', j) \in Values
  <2>1. j # k /\ Field(tree, j) \in Values
    BY <1>1, <1>3, Distinct DEF Sound, LinksAreSound, HasLeaf
  <2> QED BY <1>2, <2>1
<1> QED BY <1>2, <1>3 DEF LinksAreSound, HasLeaf

\* Taking a leaf away takes the alias with it.
LEMMA PruneSound ==
    ASSUME Sound, NEW k \in Keys, tree' = Pruned(k),
           entry' = [entry EXCEPT ![k] = Shown(k)]
    PROVE  LinksAreSound'
<1>1. ASSUME NEW j \in Keys, entry'[j] = Linked  PROVE Field(tree', j) \in Values
  <2>1. j # k /\ entry[j] = Linked
    BY <1>1, PruneStep, Distinct
  <2>2. Field(tree, j) \in Values
    BY <2>1 DEF Sound, LinksAreSound, HasLeaf
  <2>3. Field(tree', j) = Field(tree, j)
    BY <2>1, PrunedTree DEF Sound, TypeOK, Trees
  <2> QED BY <2>2, <2>3
<1> QED BY <1>1 DEF LinksAreSound, HasLeaf

LEMMA InitSound == Init => Sound
<1> SUFFICES ASSUME Init PROVE Sound
  OBVIOUS
<1>1. TypeOK
  <2>1. last.ok \in BOOLEAN
    BY DEF Init, Nothing
  <2>0. 0 \in 0..MaxFaults /\ 0 \in 0..MaxEdits
    BY BoundAssumption
  <2>2. RestOK
    <3>1. edits \in 0..MaxEdits /\ loaded \in BOOLEAN /\ deleted \subseteq Keys
      BY <2>0, Zenon DEF Init
    <3>2. prop \in [PropertyKeys -> Values \cup {None}]
      BY DEF Init
    <3>3. items \in [PropertyKeys -> Values \cup {None}]
      BY DEF Init
    <3> QED BY <3>1, <3>2, <3>3 DEF RestOK
  <2>3. YamlOK
    <3>1. faults \in 0..MaxFaults /\ dirty \in BOOLEAN /\ foreign \in BOOLEAN
      BY <2>0, Zenon DEF Init
    <3>2. content \in Items /\ tree \in Trees
      BY DEF Init, Items, Trees
    <3>3. entry \in Entries
      BY DEF Init, Entries
    <3> QED BY <2>1, <3>1, <3>2, <3>3 DEF YamlOK
  <2> QED BY <2>2, <2>3, TypeParts
<1>2. LinksAreSound
  BY Distinct DEF Init, LinksAreSound
<1> QED BY <1>1, <1>2 DEF Sound

LEMMA SoundStep == Sound /\ [Next]_vars => Sound'
<1> SUFFICES ASSUME Sound, [Next]_vars PROVE Sound'
  OBVIOUS
<1> USE TypeParts, TypePartsNext
<1>0. RestOK /\ YamlOK /\ LinksAreSound
  BY DEF Sound
<1>1. CASE Load \/ LoadFails
  <2>0. /\ LoadYaml \/ UNCHANGED <<loaded, tree, entry, history>>
        /\ LoadProperties \/ UNCHANGED prop
        /\ UNCHANGED faults \/ Fault
        /\ last' = Nothing
        /\ UNCHANGED <<content, items, edits>>
    BY <1>1, LoadCases
  <2>1. /\ tree' \in Trees /\ entry' \in Entries
        /\ \A k \in Keys : entry'[k] = Linked => Field(tree', k) \in Values
    <3>1. CASE LoadYaml
      BY <3>1, LoadStep
    <3>2. CASE UNCHANGED <<loaded, tree, entry, history>>
      BY <1>0, <3>2 DEF YamlOK, LinksAreSound, HasLeaf
    <3> QED BY <2>0, <3>1, <3>2
  <2>2. LinksAreSound'
    BY <2>1 DEF LinksAreSound, HasLeaf
  <2>3. dirty' \in BOOLEAN /\ foreign' \in BOOLEAN /\ loaded' \in BOOLEAN /\ deleted' \subseteq Keys
    BY <1>0, <2>0 DEF YamlOK, RestOK, LoadYaml, history
  <2>4. faults' \in 0..MaxFaults
    BY <1>0, <2>0, BoundAssumption DEF YamlOK, Fault
  <2>5. YamlOK'
    BY <1>0, <2>0, <2>1, <2>3, <2>4 DEF YamlOK, Nothing
  <2>6. prop' \in [PropertyKeys -> Values \cup {None}]
    BY <1>0, <2>0 DEF RestOK, LoadProperties
  <2>7. RestOK'
    BY <1>0, <2>0, <2>3, <2>6 DEF RestOK
  <2> QED BY <2>2, <2>5, <2>7 DEF Sound
<1>2. ASSUME NEW k \in Keys, DeleteConfig(k) PROVE Sound'
  <2>1. tree' = Pruned(k) /\ entry' = [entry EXCEPT ![k] = Shown(k)]
        /\ Put(tree', "delete", k, None)
    BY <1>2 DEF DeleteConfig
  <2>2. tree' \in Trees /\ entry' \in Entries
    BY <2>1, PruneStep
  <2>3. LinksAreSound'
    BY <2>1, PruneSound
  <2>4. YamlOK'
    BY <2>1, <2>2, PutStep DEF YamlOK, Sound
  <2>5. RestOK'
    BY <1>0, <1>2 DEF RestOK, DeleteConfig
  <2> QED BY <2>3, <2>4, <2>5 DEF Sound
<1>3. ASSUME NEW k \in Keys, DeleteLast(k) PROVE Sound'
  <2>1. last' = [op |-> "delete", key |-> k, value |-> None, ok |-> FALSE]
        /\ UNCHANGED <<content, items, foreign, faults, edits>>
    BY <1>3 DEF DeleteLast, Returns, external
  <2>2. CASE tree' = NullDoc /\ entry' = [j \in Keys |-> None] /\ loaded' = FALSE
             /\ prop' = [j \in PropertyKeys |-> None] /\ dirty' = FALSE /\ deleted' = {}
    <3>1. LinksAreSound'
      BY <2>2, Distinct DEF LinksAreSound
    <3>2. YamlOK'
      BY <1>0, <2>1, <2>2 DEF YamlOK, Trees, Entries
    <3>3. RestOK'
      BY <1>0, <2>1, <2>2 DEF RestOK
    <3> QED BY <3>1, <3>2, <3>3 DEF Sound
  <2>3. CASE tree' = Pruned(k) /\ entry' = [entry EXCEPT ![k] = Shown(k)]
             /\ dirty' = TRUE /\ UNCHANGED <<loaded, prop, deleted>>
    <3>1. tree' \in Trees /\ entry' \in Entries
      BY <2>3, PruneStep
    <3>2. LinksAreSound'
      BY <2>3, PruneSound
    <3>3. YamlOK'
      BY <1>0, <2>1, <2>3, <3>1 DEF YamlOK
    <3>4. RestOK'
      BY <1>0, <2>1, <2>3 DEF RestOK
    <3> QED BY <3>2, <3>3, <3>4 DEF Sound
  <2> QED BY <1>3, <2>2, <2>3, Zenon DEF DeleteLast
<1>4. ASSUME NEW k \in Keys, NEW v \in Values,
             SetConfig(k, v) \/ AddExisting(k, v) \/ AddToTree(k, v) \/ AddFirst(k, v)
      PROVE  Sound'
  <2>1. YamlOK' /\ LinksAreSound'
    BY <1>4, ChangeSound, AddSound DEF SetConfig, AddExisting
  <2>2. RestOK'
    BY <1>0, <1>4, WriteRest
  <2> QED BY <2>1, <2>2 DEF Sound
<1>5. ASSUME NEW k \in Keys, NEW v \in Values \cup {None}, Edit(k, v) PROVE Sound'
  <2>1. content' \in Items
    <3>1. CASE content \in Docs
      <4>1. content' = With(content, k, v)
        BY <1>5, <3>1 DEF Edit, With
      <4> QED BY <3>1, <4>1, SetLeaf DEF Items
    <3>2. CASE content \notin Docs
      BY <1>5, <3>2, OnlyLeaf DEF Edit, Items
    <3> QED BY <3>1, <3>2
  <2>2. YamlOK' /\ LinksAreSound'
    BY <1>0, <1>5, <2>1 DEF YamlOK, LinksAreSound, HasLeaf, Edit, store
  <2>3. edits' \in 0..MaxEdits
    BY <1>0, <1>5, BoundAssumption DEF RestOK, Edit
  <2>4. RestOK'
    BY <1>0, <1>5, <2>3 DEF RestOK, Edit, store
  <2> QED BY <2>2, <2>4 DEF Sound
<1>6. CASE \/ \E k \in Keys : DeleteUnknown(k)
           \/ \E k \in PropertyKeys : DeleteProperty(k)
           \/ \E k \in Keys, v \in Values : SetUnknown(k, v) \/ AddNowhere(k, v)
           \/ \E k \in PropertyKeys, v \in Values : SetProperty(k, v) \/ AddProperty(k, v)
           \/ UNCHANGED vars
  <2>1. Elsewhere /\ UNCHANGED <<content, foreign, deleted>>
    BY <1>6, Aside
  <2>2. LinksAreSound'
    BY <1>0, <2>1 DEF Elsewhere, LinksAreSound, HasLeaf
  <2>3. last'.ok \in BOOLEAN
    <3>1. last' = last \/ last' = Nothing \/ \E op, k, v : \E ok \in BOOLEAN : Returns(op, k, v, ok)
      <4>1. (\E j \in PropertyKeys : prop[j] # None) \in BOOLEAN
        OBVIOUS
      <4> QED BY <1>6, <4>1 DEF DeleteUnknown, DeleteProperty, SetUnknown,
                               AddNowhere, SetProperty, AddProperty, vars
    <3>2. CASE last' = last
      BY <1>0, <3>2 DEF YamlOK
    <3>3. CASE last' = Nothing
      BY <3>3 DEF Nothing
    <3>4. ASSUME NEW op, NEW k, NEW v, NEW ok \in BOOLEAN, Returns(op, k, v, ok)
          PROVE  last'.ok \in BOOLEAN
      BY <3>4 DEF Returns
    <3> QED BY <3>1, <3>2, <3>3, <3>4, Zenon
  <2>4. UNCHANGED faults \/ Fault
    BY <1>6 DEF DeleteUnknown, DeleteProperty, SetUnknown, AddNowhere,
                SetProperty, AddProperty, vars
  <2>5. faults' \in 0..MaxFaults
    BY <1>0, <2>4, BoundAssumption DEF YamlOK, Fault
  <2>6. YamlOK'
    BY <1>0, <2>1, <2>3, <2>5 DEF Elsewhere, YamlOK
  <2>7. items' \in [PropertyKeys -> Values \cup {None}]
    BY <1>0, <1>6 DEF RestOK, DeleteUnknown, DeleteProperty, SetUnknown,
                AddNowhere, SetProperty, AddProperty, vars, external
  <2>8. prop' \in [PropertyKeys -> Values \cup {None}]
    BY <1>0, <1>6 DEF RestOK, DeleteUnknown, DeleteProperty, SetUnknown,
                AddNowhere, SetProperty, AddProperty, vars, store
  <2>9. edits' = edits
    BY <1>6 DEF DeleteUnknown, DeleteProperty, SetUnknown, AddNowhere,
                SetProperty, AddProperty, vars
  <2>10. RestOK'
    BY <1>0, <2>1, <2>7, <2>8, <2>9 DEF RestOK, Elsewhere
  <2> QED BY <2>2, <2>6, <2>10 DEF Sound
<1> QED BY <1>1, <1>2, <1>3, <1>4, <1>5, <1>6, NextCases, Zenon

\* Every variable of the client and of the portal keeps its type, and no call
\* that fails, throws or starts over breaks it.
THEOREM CtrlTypeCorrect == Spec => []TypeOK
BY InitSound, SoundStep, PTL DEF Spec, Sound

\* An entry of g_map that aliases the tree aliases a leaf of it (LinksAreSound),
\* for every order of init, set, add and delete.
THEOREM AliasesSound == Spec => []LinksAreSound
BY InitSound, SoundStep, PTL DEF Spec, Sound

-----------------------------------------------------------------------------
(* What a write sends, and what stays away.                                *)

\* The writes of a key k: what they send differs from the tree in k alone, and
\* unless they leave the client dirty the portal holds what they sent.
LEMMA WriteEffect ==
    ASSUME Sound, NEW k \in Keys, NEW v \in Values,
           \/ DeleteConfig(k)
           \/ SetConfig(k, v) \/ AddExisting(k, v) \/ AddToTree(k, v) \/ AddFirst(k, v)
    PROVE  /\ tree' \in Trees
           /\ ~dirty' => content' = tree'
           /\ \A j \in Keys \ {k} : Field(tree', j) = Field(tree, j)
           /\ content' = content \/ \A j \in Keys \ {k} : Field(content', j) = Field(tree, j)
           /\ \A j \in Keys \ {k} : entry'[j] = entry[j]
           /\ last'.key = k
<1>1. tree \in Trees
  BY DEF Sound, TypeOK, Trees
<1>2. CASE DeleteConfig(k)
  <2>1. tree' = Pruned(k) /\ entry' = [entry EXCEPT ![k] = Shown(k)]
        /\ Put(tree', "delete", k, None)
    BY <1>2 DEF DeleteConfig
  <2>2. tree' \in Trees /\ \A j \in Keys \ {k} : entry'[j] = entry[j]
    BY <2>1, PruneStep
  <2>3. \A j \in Keys \ {k} : Field(tree', j) = Field(tree, j)
    BY <1>1, <2>1, PrunedTree
  <2>4. content' \in {content, tree'} /\ (~dirty' => content' = tree') /\ last'.key = k
    BY <2>1, <2>2, PutStep DEF Sound
  <2> QED BY <2>2, <2>3, <2>4
<1>3. CASE SetConfig(k, v) \/ AddExisting(k, v)
  <2>1. \E op : Change(op, k, v)
    BY <1>3 DEF SetConfig, AddExisting
  <2>2. PICK op : Change(op, k, v)
    BY <2>1
  <2>3. /\ tree' = Written(k, v) /\ tree' \in Trees
        /\ \A j \in Keys \ {k} : entry'[j] = entry[j]
        /\ Put(tree', op, k, v)
    BY <2>2, ChangeStep
  <2>4. \A j \in Keys \ {k} : Field(tree', j) = Field(tree, j)
    BY <1>1, <2>3, WrittenTree
  <2>5. content' \in {content, tree'} /\ (~dirty' => content' = tree') /\ last'.key = k
    BY <2>3, PutStep DEF Sound
  <2> QED BY <2>3, <2>4, <2>5
<1>4. CASE AddToTree(k, v) \/ AddFirst(k, v)
  <2>1. /\ YamlOK'
        /\ \A j \in Keys \ {k} : Field(tree', j) = Field(tree, j)
        /\ content' = content \/ \A j \in Keys \ {k} : Field(content', j) = Field(tree, j)
    BY <1>4, AddSound
  <2>2. tree' \in Trees /\ entry' = entry
    BY <1>4, <2>1 DEF YamlOK, AddToTree, AddFirst
  <2>3. CASE AddToTree(k, v)
    <3>1. Put(tree', "add", k, v)
      BY <2>3 DEF AddToTree
    <3>2. (~dirty' => content' = tree') /\ last'.key = k
      BY <2>2, <3>1, PutStep DEF Sound
    <3> QED BY <2>1, <2>2, <3>2
  <2>4. CASE AddFirst(k, v)
    <3>1. Post(Only(k, v), k, v) /\ Only(k, v) \in Docs
      BY <2>4, OnlyLeaf DEF AddFirst
    <3>2. (~dirty' => content' = tree') /\ last'.key = k
      BY <3>1, PostStep DEF Sound
    <3> QED BY <2>1, <2>2, <3>2
  <2> QED BY <1>4, <2>3, <2>4
<1> QED BY <1>2, <1>3, <1>4

LEMMA SyncedStep == Sound /\ Synced /\ [Next]_vars => Synced'
<1> SUFFICES ASSUME Sound, Synced, [Next]_vars PROVE Synced'
  OBVIOUS
<1>1. CASE Load \/ LoadFails
  <2>1. /\ LoadYaml \/ UNCHANGED <<loaded, tree, entry, history>>
        /\ content' = content
    BY <1>1, LoadCases
  <2> QED BY <2>1 DEF LoadYaml, history, Synced
<1>2. ASSUME NEW k \in Keys, NEW v \in Values,
             \/ DeleteConfig(k)
             \/ SetConfig(k, v) \/ AddExisting(k, v) \/ AddToTree(k, v) \/ AddFirst(k, v)
      PROVE  Synced'
  <2>1. tree' \in Trees /\ (~dirty' => content' = tree')
    BY <1>2, WriteEffect
  <2> QED BY <2>1, Distinct DEF Synced, Document, Trees
<1>3. ASSUME NEW k \in Keys, DeleteConfig(k) PROVE Synced'
  <2>1. tree' = Pruned(k) /\ entry' = [entry EXCEPT ![k] = Shown(k)]
        /\ Put(tree', "delete", k, None)
    BY <1>3 DEF DeleteConfig
  <2>2. tree' \in Trees
    BY <2>1, PruneStep
  <2>3. ~dirty' => content' = tree'
    BY <2>1, <2>2, PutStep DEF Sound
  <2> QED BY <2>2, <2>3, Distinct DEF Synced, Document, Trees
<1>4. ASSUME NEW k \in Keys, DeleteLast(k) PROVE Synced'
  BY <1>4 DEF DeleteLast, Synced
<1>5. ASSUME NEW k \in Keys, NEW v \in Values \cup {None}, Edit(k, v) PROVE Synced'
  BY <1>5 DEF Edit, Synced
<1>6. CASE \/ \E k \in Keys : DeleteUnknown(k)
           \/ \E k \in PropertyKeys : DeleteProperty(k)
           \/ \E k \in Keys, v \in Values : SetUnknown(k, v) \/ AddNowhere(k, v)
           \/ \E k \in PropertyKeys, v \in Values : SetProperty(k, v) \/ AddProperty(k, v)
           \/ UNCHANGED vars
  <2>1. Elsewhere /\ UNCHANGED <<content, foreign, deleted>>
    BY <1>6, Aside
  <2> QED BY <2>1 DEF Elsewhere, Synced
<1> QED BY <1>1, <1>2, <1>3, <1>4, <1>5, <1>6, NextCases, Zenon

LEMMA StaysAwayStep ==
    Sound /\ Synced /\ DeletedStaysAway /\ [Next]_vars => DeletedStaysAway'
<1> SUFFICES ASSUME Sound, Synced, DeletedStaysAway, [Next]_vars PROVE DeletedStaysAway'
  OBVIOUS
<1>0. deleted \subseteq Keys /\ tree \in Trees
  BY DEF Sound, TypeOK, Trees
<1>1. CASE Load \/ LoadFails
  <2>1. /\ LoadYaml \/ UNCHANGED <<loaded, tree, entry, history>>
        /\ content' = content
    BY <1>1, LoadCases
  <2> QED BY <2>1 DEF LoadYaml, history, DeletedStaysAway, KeyExist
<1>2. ASSUME NEW k \in Keys, DeleteConfig(k) PROVE DeletedStaysAway'
  <2>1. /\ tree' = Pruned(k) /\ entry' = [entry EXCEPT ![k] = Shown(k)]
        /\ Put(tree', "delete", k, None) /\ entry[k] # None
        /\ \A j \in deleted' : j \in deleted \/ j = k
    BY <1>2 DEF DeleteConfig, KeyExist
  <2>2. /\ tree' \in Trees
        /\ entry'[k] # None /\ \A j \in Keys \ {k} : entry'[j] = entry[j]
    BY <2>1, PruneStep
  <2>3. ~dirty' => content' = tree'
    BY <2>1, <2>2, PutStep DEF Sound
  <2>4. ASSUME NEW j \in deleted'
        PROVE  j \in Keys /\ Field(tree', j) \notin Values /\ entry'[j] # None
    <3>1. CASE j = k
      BY <1>0, <2>1, <2>2, <3>1, PrunedTree
    <3>2. CASE j \in deleted /\ j # k
      <4>1. j \in Keys /\ Field(tree, j) \notin Values /\ entry[j] # None
        BY <1>0, <3>2 DEF DeletedStaysAway, KeyExist
      <4>2. Field(tree', j) = Field(tree, j)
        BY <1>0, <2>1, <3>2, <4>1, PrunedTree
      <4> QED BY <2>2, <3>2, <4>1, <4>2
    <3> QED BY <2>1, <3>1, <3>2
  <2> QED BY <2>3, <2>4 DEF DeletedStaysAway, KeyExist
<1>3. ASSUME NEW k \in Keys, DeleteLast(k) PROVE DeletedStaysAway'
  <2>1. CASE deleted' = {}
    BY <2>1 DEF DeletedStaysAway
  <2>2. CASE /\ tree' = Pruned(k) /\ entry' = [entry EXCEPT ![k] = Shown(k)]
             /\ dirty' = TRUE /\ deleted' = deleted
    <3>1. entry[k] # None
      BY <1>3 DEF DeleteLast, KeyExist
    <3>2. entry'[k] # None /\ \A j \in Keys \ {k} : entry'[j] = entry[j]
      BY <2>2, <3>1, PruneStep
    <3>3. ASSUME NEW j \in deleted PROVE Field(tree', j) \notin Values /\ entry'[j] # None
      <4>1. j \in Keys /\ Field(tree, j) \notin Values /\ entry[j] # None
        BY <1>0 DEF DeletedStaysAway, KeyExist
      <4>2. Field(tree', j) \notin Values
        BY <1>0, <2>2, <4>1, PrunedTree
      <4> QED BY <3>2, <4>1, <4>2
    <3> QED BY <2>2, <3>3 DEF DeletedStaysAway, KeyExist
  <2> QED BY <1>3, <2>1, <2>2, Zenon DEF DeleteLast
<1>4. ASSUME NEW k \in Keys, NEW v \in Values,
             SetConfig(k, v) \/ AddExisting(k, v) \/ AddToTree(k, v) \/ AddFirst(k, v)
      PROVE  DeletedStaysAway'
  <2>1. /\ ~dirty' => content' = tree'
        /\ \A j \in Keys \ {k} : Field(tree', j) = Field(tree, j)
        /\ \A j \in Keys \ {k} : entry'[j] = entry[j]
    BY <1>4, WriteEffect
  <2>2. deleted' = deleted
    BY <1>4 DEF SetConfig, AddExisting, AddToTree, AddFirst
  <2>3. ASSUME NEW j \in deleted PROVE Field(tree', j) \notin Values /\ entry'[j] # None
    <3>1. j \in Keys /\ Field(tree, j) \notin Values /\ entry[j] # None
      BY <1>0 DEF DeletedStaysAway, KeyExist
    <3>2. CASE j # k
      BY <2>1, <3>1, <3>2
    <3>3. CASE j = k
      <4>1. PICK op : Change(op, k, v)
        BY <1>4, <3>1, <3>3 DEF SetConfig, AddExisting, AddToTree, AddFirst, KeyExist
      <4>2. ~HasLeaf(k)
        BY <3>1, <3>3 DEF HasLeaf
      <4>3. tree' = tree /\ entry'[k] = v
        BY <1>0, <4>1, <4>2, ChangeStep, WrittenTree
      <4> QED BY <3>1, <3>3, <4>3, Distinct
    <3> QED BY <3>2, <3>3
  <2> QED BY <2>1, <2>2, <2>3 DEF DeletedStaysAway, KeyExist
<1>5. ASSUME NEW k \in Keys, NEW v \in Values \cup {None}, Edit(k, v)
      PROVE  DeletedStaysAway'
  BY <1>5 DEF Edit, DeletedStaysAway, KeyExist, store
<1>6. CASE \/ \E k \in Keys : DeleteUnknown(k)
           \/ \E k \in PropertyKeys : DeleteProperty(k)
           \/ \E k \in Keys, v \in Values : SetUnknown(k, v) \/ AddNowhere(k, v)
           \/ \E k \in PropertyKeys, v \in Values : SetProperty(k, v) \/ AddProperty(k, v)
           \/ UNCHANGED vars
  <2>1. Elsewhere /\ UNCHANGED <<content, foreign, deleted>>
    BY <1>6, Aside
  <2> QED BY <2>1 DEF Elsewhere, DeletedStaysAway, KeyExist
<1> QED BY <1>1, <1>2, <1>3, <1>4, <1>5, <1>6, NextCases, Zenon

IInv == Sound /\ Synced /\ DeletedStaysAway

LEMMA Inductive == (Init => IInv) /\ (IInv /\ [Next]_vars => IInv')
<1>1. Init => Synced /\ DeletedStaysAway
  BY DEF Init, Synced, DeletedStaysAway
<1> QED BY <1>1, InitSound, SoundStep, SyncedStep, StaysAwayStep DEF IInv

\* Unless the last write of the namespace failed or others have edited it, the
\* portal holds exactly the document of g_node_map: a write that succeeds
\* repairs what failed writes before it left in the tree.
THEOREM WritesRepair == Spec => []Synced
BY Inductive, PTL DEF Spec, IInv

\* No value of a key whose deletion returned true comes back by a write of this
\* client, of whatever key.
THEOREM DeletionsLast == Spec => []DeletedStaysAway
BY Inductive, PTL DEF Spec, IInv

\* Although it sends the whole document, a write of a client in step with the
\* portal changes there no key but its own.
THEOREM OneKeyPerWrite == Spec => WritesChangeOneKey
<1>1. IInv /\ [Next]_vars
        => [loaded /\ ~dirty /\ ~foreign /\ edits' = edits => OnlyItsKey]_vars
  <2> SUFFICES ASSUME IInv, Next, loaded, ~dirty, ~foreign, edits' = edits
               PROVE  OnlyItsKey
    OBVIOUS
  <2>1. \A k \in Keys : Field(content, k) = Field(tree, k)
    <3>1. Document(content) = tree
      BY DEF IInv, Synced
    <3> QED BY <3>1, NullHasNoFields DEF Document
  <2>2. content' = content => OnlyItsKey
    BY DEF OnlyItsKey
  <2>3. ASSUME NEW k \in Keys, NEW v \in Values,
               \/ DeleteConfig(k)
               \/ SetConfig(k, v) \/ AddExisting(k, v) \/ AddToTree(k, v) \/ AddFirst(k, v)
        PROVE  OnlyItsKey
    <3>1. /\ content' = content \/ \A j \in Keys \ {k} : Field(content', j) = Field(tree, j)
          /\ last'.key = k
      BY <2>3, WriteEffect DEF IInv
    <3> QED BY <2>1, <2>2, <3>1 DEF OnlyItsKey
  <2>4. ASSUME NEW k \in Keys, DeleteConfig(k) PROVE OnlyItsKey
    <3>1. tree' = Pruned(k) /\ entry' = [entry EXCEPT ![k] = Shown(k)]
          /\ Put(tree', "delete", k, None)
      BY <2>4 DEF DeleteConfig
    <3>2. tree' \in Trees /\ \A j \in Keys \ {k} : Field(tree', j) = Field(tree, j)
      BY <3>1, PruneStep, PrunedTree DEF IInv, Sound, TypeOK, Trees
    <3>3. content' \in {content, tree'} /\ last'.key = k
      BY <3>1, <3>2, PutStep DEF IInv, Sound
    <3> QED BY <2>1, <2>2, <3>2, <3>3 DEF OnlyItsKey
  <2>5. ASSUME NEW k \in Keys, NEW v \in Values \cup {None}, Edit(k, v) PROVE FALSE
    <3>1. edits \in Nat
      BY BoundAssumption DEF IInv, Sound, TypeOK
    <3>2. edits' = edits + 1
      BY <2>5 DEF Edit
    <3> QED BY <3>1, <3>2
  <2>6. CASE Load \/ LoadFails \/ \E k \in Keys : DeleteLast(k)
    BY <2>2, <2>6 DEF Load, LoadFails, DeleteLast, external
  <2>7. CASE \/ \E k \in Keys : DeleteUnknown(k)
             \/ \E k \in PropertyKeys : DeleteProperty(k)
             \/ \E k \in Keys, v \in Values : SetUnknown(k, v) \/ AddNowhere(k, v)
             \/ \E k \in PropertyKeys, v \in Values : SetProperty(k, v) \/ AddProperty(k, v)
    BY <2>2, <2>7, Aside
  <2> QED BY <2>3, <2>4, <2>5, <2>6, <2>7, NextCases, Zenon
<1> QED BY <1>1, Inductive, PTL DEF Spec, WritesChangeOneKey

=============================================================================
