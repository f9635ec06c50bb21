------------------------------- MODULE CtrlStore -------------------------------
(***************************************************************************)
(* The open-platform client apollo_ctrl_base (include and src              *)
(* apollo_openapi_base): the local copy of an application's configuration  *)
(* that init loads (g_map, g_node_map), the operations that change it and  *)
(* write it back over HTTP, and the portal (external), where other people  *)
(* edit the same items.  There is one yaml and one properties namespace;   *)
(* namespaces share no state.                                              *)
(*                                                                         *)
(* A yaml-cpp Node is a reference.  parseYamlNode puts a reference to the  *)
(* leaf of the tree into g_map, so an entry is either Linked (it is that   *)
(* leaf) or has a value of its own.  auto store_map = g_map[ns] copies the *)
(* entries: a new value of an entry is seen through every copy, an entry   *)
(* added to or erased from the copy is not.                                *)
(***************************************************************************)
EXTENDS Integers, FiniteSets

CONSTANTS
    Keys,          \* keys of the yaml namespace, below appid/namespace/, without '/'
    PropertyKeys,  \* keys of the properties namespace
    Values,        \* scalar (or sequence) values
    MaxFaults,     \* bound: requests that fail, whose answer is lost or not parsed
    MaxEdits       \* bound: edits by others in the portal

\* No entry, the yaml null, an entry that aliases a leaf of the tree; an item
\* "content" that holds the null document, and no such item.
CONSTANTS None, Nil, Linked, NullDoc, NoItem

Docs == [Keys -> Values \cup {Nil, None}]

ASSUME DistinctAssumption ==
    /\ None \notin Values \cup {Nil, Linked}
    /\ Nil \notin Values \cup {Linked}
    /\ Linked \notin Values
    /\ NullDoc \notin Docs \cup {NoItem}
    /\ NoItem \notin Docs
ASSUME BoundAssumption == MaxFaults \in Nat /\ MaxEdits \in Nat

VARIABLES
    content,   \* external: the item "content" of the yaml namespace
    items,     \* external: the items of the properties namespace
    loaded,    \* init has filled the maps at least once
    tree,      \* g_node_map of the yaml namespace, NullDoc while it is Null
    entry,     \* g_map of the yaml namespace
    prop,      \* g_map of the properties namespace
    last,      \* what the last call was and what it returned
    dirty,     \* history: the last write of the yaml namespace did not return success
    foreign,   \* history: others have edited it since the last load or write
    deleted,   \* history: keys whose deletion returned true since the last load,
               \* but for those that others have edited since
    faults, edits

external == <<content, items>>
store    == <<loaded, tree, entry, prop>>
history  == <<dirty, foreign, deleted>>
vars     == <<content, items, loaded, tree, entry, prop, last, dirty, foreign,
              deleted, faults, edits>>

\* The document init parses from the item: a namespace without items is null.
Document(item) == IF item = NoItem THEN NullDoc ELSE item

\* What a document says of k, and the document that says v of k and no more.
Field(doc, k) == IF doc \in Docs THEN doc[k] ELSE None
Only(k, v) == [j \in Keys |-> IF j = k THEN v ELSE None]

\* The value an entry of g_map shows: getConfig returns it.
Shown(k) == IF entry[k] = Linked THEN tree[k] ELSE entry[k]

\* keyExist: the namespace and the key are in g_map.
KeyExist(k) == entry[k] # None

\* modifyGiveNameYamlNode and deleteGiveNameYamlNode act on the leaf with this
\* path; they look only at scalars and sequences, so a null leaf is passed over.
HasLeaf(k) == Field(tree, k) \in Values

Returns(op, k, v, ok) == last' = [op |-> op, key |-> k, value |-> v, ok |-> ok]

Nothing == [op |-> "none", key |-> None, value |-> None, ok |-> TRUE]

Fault == faults < MaxFaults /\ faults' = faults + 1

Init ==
    /\ content \in Docs \cup {NullDoc, NoItem}
    /\ items \in [PropertyKeys -> Values \cup {None}]
    /\ loaded = FALSE
    /\ tree = NullDoc
    /\ entry = [k \in Keys |-> None]
    /\ prop = [k \in PropertyKeys |-> None]
    /\ last = Nothing
    /\ dirty = FALSE
    /\ foreign = FALSE
    /\ deleted = {}
    /\ faults = 0
    /\ edits = 0

-----------------------------------------------------------------------------
(* Others in the portal (external).                                        *)

Edit(k, v) ==
    /\ edits < MaxEdits
    /\ edits' = edits + 1
    /\ content' = IF content \in Docs THEN [content EXCEPT ![k] = v] ELSE Only(k, v)
    /\ foreign' = TRUE
    /\ deleted' = deleted \ {k}
    /\ UNCHANGED <<items, store, last, dirty, faults>>

-----------------------------------------------------------------------------
(* init: updateAllNamespaceInfoInThisAppid and dealWithJsonData.           *)

Parsed_LinksNull(doc) ==
    [k \in Keys |-> IF Field(doc, k) = None THEN Shown(k) ELSE Linked]

\* The entries after a document is parsed into g_map: entries are added and
\* redirected, never erased, so one whose key is gone keeps its old value.
Parsed(doc) ==
    [k \in Keys |->
        IF Field(doc, k) = None THEN Shown(k)
        ELSE IF Field(doc, k) = Nil THEN Nil ELSE Linked]

\* What one namespace of the answer does, the yaml one and the properties one.
LoadYaml ==
    /\ loaded' = TRUE
    /\ tree' = Document(content)
    /\ entry' = Parsed(content)
    /\ dirty' = FALSE
    /\ foreign' = FALSE
    /\ deleted' = {}

LoadProperties ==
    prop' = [k \in PropertyKeys |-> IF items[k] = None THEN prop[k] ELSE items[k]]

Load ==
    /\ LoadYaml
    /\ LoadProperties
    /\ last' = Nothing
    /\ UNCHANGED <<external, faults, edits>>

\* The request fails, or a document does not parse: the exception leaves init
\* with the namespaces before that one loaded and the others as they were (it may
\* be the document of a third namespace, after both of these).
LoadFails ==
    /\ Fault
    /\ LoadYaml \/ UNCHANGED <<loaded, tree, entry, history>>
    /\ LoadProperties \/ UNCHANGED prop
    /\ last' = Nothing
    /\ UNCHANGED <<external, edits>>

-----------------------------------------------------------------------------
(* Writing the yaml namespace.                                             *)

\* modifyYamlConfig: PUT the whole document.  It succeeds; or it fails before
\* or after the portal has taken it; or there is no item to change.
Put(doc, op, k, v) ==
    \/ /\ content # NoItem
       /\ content' = doc
       /\ dirty' = FALSE /\ foreign' = FALSE
       /\ UNCHANGED faults
       /\ Returns(op, k, v, TRUE)
    \/ /\ Fault
       /\ content' \in {content, IF content = NoItem THEN content ELSE doc}
       /\ dirty' = TRUE
       /\ UNCHANGED foreign
       /\ Returns(op, k, v, FALSE)
    \/ /\ content = NoItem
       /\ dirty' = TRUE
       /\ UNCHANGED <<content, faults, foreign>>
       /\ Returns(op, k, v, FALSE)

\* addNewItem: POST the item "content".  It is refused when the item is there.
\* (On failure it reads the answer's body to log it, and may throw in place of
\* returning false; nothing has changed by then.)
Post(doc, k, v) ==
    \/ /\ content = NoItem
       /\ content' = doc /\ tree' = doc
       /\ dirty' = FALSE /\ foreign' = FALSE
       /\ UNCHANGED faults
       /\ Returns("add", k, v, TRUE)
    \/ /\ Fault
       /\ content' \in {content, IF content = NoItem THEN doc ELSE content}
       /\ dirty' = TRUE
       /\ UNCHANGED <<tree, foreign>>
       /\ Returns("add", k, v, FALSE)
    \/ /\ content # NoItem
       /\ dirty' = TRUE
       /\ UNCHANGED <<content, tree, faults, foreign>>
       /\ Returns("add", k, v, FALSE)

Change_SendsOld(op, k, v) ==
    /\ entry' = [entry EXCEPT ![k] = IF HasLeaf(k) THEN Linked ELSE v]
    /\ tree' = IF HasLeaf(k) THEN [tree EXCEPT ![k] = v] ELSE tree
    /\ Put(tree, op, k, v)

Change_AddsLeaf(op, k, v) ==
    /\ entry' = [entry EXCEPT ![k] = IF tree \in Docs THEN Linked ELSE v]
    /\ tree' = IF tree \in Docs THEN [tree EXCEPT ![k] = v] ELSE tree
    /\ Put(tree', op, k, v)

\* The part of setConfig behind its checks: the entry's node gets the value, in
\* place, and the tree's leaf is made the same node, where there is one.
Change(op, k, v) ==
    /\ entry' = [entry EXCEPT ![k] = IF HasLeaf(k) THEN Linked ELSE v]
    /\ tree' = IF HasLeaf(k) THEN [tree EXCEPT ![k] = v] ELSE tree
    /\ Put(tree', op, k, v)

SetConfig(k, v) ==
    /\ KeyExist(k)
    /\ Change("set", k, v)
    /\ UNCHANGED <<items, loaded, prop, deleted, edits>>

SetUnknown(k, v) ==
    /\ ~KeyExist(k)
    /\ Returns("set", k, v, FALSE)
    /\ UNCHANGED <<external, store, history, faults, edits>>

Pruned_Parent(k) == IF HasLeaf(k) THEN [j \in Keys |-> None] ELSE tree
Pruned(k) == IF HasLeaf(k) THEN [tree EXCEPT ![k] = None] ELSE tree

\* deleteConfig: the leaf leaves the tree and the tree is PUT.  A null leaf does
\* not: the tree is PUT as it was, and the call may return true all the same.
\* The entry is erased from the copy of the map alone, and keeps the value it
\* had.  The leaf is removed while an iterator walks its map: it must not be
\* the last.
DeleteConfig(k) ==
    /\ KeyExist(k)
    /\ HasLeaf(k) => \E j \in Keys \ {k} : tree[j] # None
    /\ entry' = [entry EXCEPT ![k] = Shown(k)]
    /\ tree' = Pruned(k)
    /\ Put(tree', "delete", k, None)
    /\ deleted' = IF last'.ok THEN deleted \cup {k} ELSE deleted
    /\ UNCHANGED <<items, loaded, prop, edits>>

\* It is the last of its map: the iterator steps over the end and the garbage
\* behind is read as a key.  The process dies (a new one has no maps), or the
\* conversion throws out of deleteConfig.  Keys have no order here, so any
\* leaf may be the last.
DeleteLast(k) ==
    /\ KeyExist(k)
    /\ HasLeaf(k)
    /\ \/ /\ loaded' = FALSE
          /\ tree' = NullDoc
          /\ entry' = [j \in Keys |-> None]
          /\ prop' = [j \in PropertyKeys |-> None]
          /\ dirty' = FALSE
          /\ deleted' = {}
       \/ /\ entry' = [entry EXCEPT ![k] = Shown(k)]
          /\ tree' = Pruned(k)
          /\ dirty' = TRUE
          /\ UNCHANGED <<loaded, prop, deleted>>
    /\ Returns("delete", k, None, FALSE)
    /\ UNCHANGED <<external, foreign, faults, edits>>

DeleteUnknown(k) ==
    /\ ~KeyExist(k)
    /\ Returns("delete", k, None, FALSE)
    /\ UNCHANGED <<external, store, history, faults, edits>>

\* addNewConfig of a key g_map has is setConfig.
AddExisting(k, v) ==
    /\ loaded
    /\ KeyExist(k)
    /\ Change("add", k, v)
    /\ UNCHANGED <<items, loaded, prop, deleted, edits>>

\* Of a key it has not, it adds to the tree and PUTs.  g_map gets no entry.
AddToTree(k, v) ==
    /\ loaded
    /\ ~KeyExist(k)
    /\ tree # NullDoc
    /\ tree' = [tree EXCEPT ![k] = v]
    /\ Put(tree', "add", k, v)
    /\ UNCHANGED <<items, loaded, entry, prop, deleted, edits>>

\* To an empty document it adds the item "content" itself.
AddFirst(k, v) ==
    /\ loaded
    /\ ~KeyExist(k)
    /\ tree = NullDoc
    /\ Post(Only(k, v), k, v)
    /\ UNCHANGED <<items, loaded, entry, prop, deleted, edits>>

\* No namespace of that name: init has not succeeded.
AddNowhere(k, v) ==
    /\ ~loaded
    /\ Returns("add", k, v, FALSE)
    /\ UNCHANGED <<external, store, history, faults, edits>>

-----------------------------------------------------------------------------
(* The properties namespace (its name has no '.').                         *)

\* setConfig changes the node in g_map and sends nothing.
SetProperty(k, v) ==
    /\ prop[k] # None
    /\ prop' = [prop EXCEPT ![k] = v]
    /\ Returns("setProperty", k, v, TRUE)
    /\ UNCHANGED <<external, loaded, tree, entry, history, faults, edits>>

\* deleteConfig sends DELETE and erases the entry from a copy.  What the portal
\* answers for an item that is already gone is left open.
DeleteProperty(k) ==
    /\ prop[k] # None
    /\ \/ items' = [items EXCEPT ![k] = None] /\ UNCHANGED faults
          /\ Returns("deleteProperty", k, None, TRUE)
       \/ items[k] = None /\ UNCHANGED <<items, faults>>
          /\ Returns("deleteProperty", k, None, FALSE)
       \/ Fault /\ items' \in {items, [items EXCEPT ![k] = None]}
          /\ Returns("deleteProperty", k, None, FALSE)
    /\ UNCHANGED <<content, store, history, edits>>

\* addNewConfig takes the want of a '.' in the name for an error, which it logs;
\* it returns true, and false only when g_map has no such namespace.
AddProperty(k, v) ==
    /\ Returns("addProperty", k, v, \E j \in PropertyKeys : prop[j] # None)
    /\ UNCHANGED <<external, store, history, faults, edits>>

-----------------------------------------------------------------------------
Write(k, v) ==
    \/ SetConfig(k, v) \/ SetUnknown(k, v)
    \/ AddExisting(k, v) \/ AddToTree(k, v) \/ AddFirst(k, v) \/ AddNowhere(k, v)

Delete(k) == DeleteConfig(k) \/ DeleteLast(k) \/ DeleteUnknown(k)

Next ==
    \/ Load \/ LoadFails
    \/ \E k \in Keys : Delete(k)
    \/ \E k \in PropertyKeys : DeleteProperty(k)
    \/ \E k \in Keys, v \in Values : Write(k, v)
    \/ \E k \in PropertyKeys, v \in Values : SetProperty(k, v) \/ AddProperty(k, v)
    \/ \E k \in Keys, v \in Values \cup {None} : Edit(k, v)

Spec == Init /\ [][Next]_vars

-----------------------------------------------------------------------------
(* Properties.                                                             *)

\* Every variable has its type.
TypeOK ==
    /\ content \in Docs \cup {NullDoc, NoItem}
    /\ items \in [PropertyKeys -> Values \cup {None}]
    /\ loaded \in BOOLEAN
    /\ tree \in Docs \cup {NullDoc}
    /\ entry \in [Keys -> Values \cup {Nil, None, Linked}]
    /\ prop \in [PropertyKeys -> Values \cup {None}]
    /\ last.ok \in BOOLEAN
    /\ dirty \in BOOLEAN /\ foreign \in BOOLEAN
    /\ deleted \subseteq Keys
    /\ faults \in 0..MaxFaults /\ edits \in 0..MaxEdits

\* A write that succeeds repairs what failed writes before it have left behind
\* (the two TODOs): unless the last one failed or others have edited, the portal
\* holds exactly the document of g_node_map.
Synced == loaded /\ ~dirty /\ ~foreign => Document(content) = tree

\* An entry that aliases the tree aliases a leaf that is there: reading it shows
\* what the next write will send.
LinksAreSound == \A k \in Keys : entry[k] = Linked => HasLeaf(k)

\* Once deleteConfig has returned true for a key, no value of it is in the tree
\* or, after a write that succeeded, in the portal, until others or a new init
\* bring one back, whatever setConfig and addNewConfig report since: its entry is
\* still in g_map, and no longer part of any document.  (A value: of a null leaf
\* deleteConfig removes nothing, and returns true with the key still in the portal.)
DeletedStaysAway ==
    \A k \in deleted : /\ Field(tree, k) \notin Values
                       /\ ~dirty /\ ~foreign => Field(content, k) \notin Values
                       /\ KeyExist(k)

\* A write of a client that is in step with the portal, succeed or fail, changes
\* in the portal no key but its own, although it sends the whole document.
OnlyItsKey ==
    \A k \in Keys : Field(content', k) # Field(content, k) => k = last'.key

WritesChangeOneKey ==
    [][loaded /\ ~dirty /\ ~foreign /\ edits' = edits => OnlyItsKey]_vars

\* README.md:93 and 105, "modify one configuration", and 99, "add one
\* configuration": what a setConfig or addNewConfig that returned true was to
\* write is in the portal.
WritesReachPortal ==
    last.ok =>
        /\ last.op \in {"set", "add"} =>
              foreign \/ Field(content, last.key) = last.value
        /\ last.op \in {"setProperty", "addProperty"} => items[last.key] = last.value

=============================================================================
