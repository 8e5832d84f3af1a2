----------------------------- MODULE FileManager ----------------------------
(***************************************************************************)
(* The file manager of the screen SD FILES (src/src/filemanager.rs): its   *)
(* listing, its clipboard and its copy job, on a FAT volume.               *)
(*                                                                         *)
(* No FAT handle is kept between two keys or two steps of a copy: all the  *)
(* manager remembers are paths, names and positions in a listing, looked   *)
(* up again on every use.  Copying does one bounded step per pass of the   *)
(* main loop (Poll), and keys are ignored until it ends.                   *)
(*                                                                         *)
(* A path is a sequence of names; names that differ only in case are one.  *)
(* A file is a sequence of units; a step copies up to a chunk of them.     *)
(* Typing is abstracted to the name that is in the input when Enter is     *)
(* pressed.  An operation on the card may fail before it changes anything  *)
(* or after it did all it should; a write may also stop half way.          *)
(*                                                                         *)
(* The definitions named Wrong... are mutants: each is what the definition *)
(* that follows it would be with one plausible bug.  Nothing uses them.    *)
(*                                                                         *)
(* An optional value is a set of at most one element.                      *)
(***************************************************************************)
EXTENDS Integers, SequencesExt

CONSTANTS
    Names,      \* names of files and directories
    Typed,      \* the names the user types
    Content,    \* the units a file is made of
    PageLen,    \* PAGE_LEN
    Chunk,      \* COPY_CHUNK
    MaxDepth,   \* MAX_COPY_DEPTH
    MaxEdits,   \* bound: how often the user asks for a change of the card
    MaxNodes,   \* the files and directories the card has room for
    Trees,      \* the volumes the manager may be opened on
    CardFails   \* any access to the card may fail

ASSUME FilesAssumption ==
    /\ {PageLen, Chunk, MaxDepth, MaxNodes} \subseteq Nat \ {0}
    /\ MaxEdits \in Nat
    /\ Typed \subseteq Names
    /\ CardFails \in BOOLEAN

VARIABLES
    tree,       \* the volume: a function from paths to nodes
    open,       \* file_manager.is_some()
    view,       \* view-state: "menu", or one of the manager's (10 .. 13); view 12 is
                \* named for what the name is for (FileManager.name_action)
    cwd,        \* FileManager.cwd
    page,       \* FileManager.page
    selected,   \* FileManager.selected
    entries,    \* FileManager.entries
    more,       \* FileManager.more
    clipboard,  \* FileManager.clipboard
    confirm,    \* FileManager.confirm_name
    report,     \* FileManager.status: "copied", "partial", or anything "else"
    job,        \* FileManager.copy
    task,       \* history: what the job copies, and where to
    edits,      \* history: how often the user asked for a change
    lagging,    \* history: the list was not read, or a failed call changed the card since
    stray       \* history: why the clipboard may name nothing

listing == <<cwd, page, selected, entries, more>>
work    == <<job, task>>
history == <<edits, lagging, stray>>
vars    == <<tree, open, view, listing, clipboard, confirm, report, work, history>>

-----------------------------------------------------------------------------
(* The volume.                                                             *)

(* A directory that was created but never initialised is "broken": no      *)
(* entry of it can be read.                                                *)
Node(kind) == [kind |-> kind, items |-> <<>>, data |-> <<>>]
Nodes == [kind : {"file", "dir", "broken"}, items : Seq(Names), data : Seq(Content)]

(* An entry with nothing below it.                                         *)
Alone(kind) == [p \in {<<>>} |-> Node(kind)]

Kind(t, p)  == IF p \in DOMAIN t THEN t[p].kind ELSE "none"
IsDir(t, p) == Kind(t, p) \in {"dir", "broken"}

(* Every entry lies in directories that can be read, and a directory lists *)
(* each entry once.                                                        *)
IsTree(t) ==
    /\ <<>> \in DOMAIN t
    /\ \A p \in DOMAIN t :
        /\ p \in Seq(Names) /\ t[p] \in Nodes
        /\ \A n \in 0 .. Len(p) - 1 : Kind(t, SubSeq(p, 1, n)) = "dir"
        /\ Range(t[p].items) = {name \in Names : Append(p, name) \in DOMAIN t}
        /\ IsInjective(t[p].items)

IsVolume(t) == IsTree(t) /\ Kind(t, <<>>) = "dir"

ASSUME VolumesAssumption == \A t \in Trees : IsVolume(t)

Below(t, p)   == {q \in DOMAIN t : IsPrefix(p, q)}
Subtree(t, p) ==
    [r \in {SubSeq(q, Len(p) + 1, Len(q)) : q \in Below(t, p)} |-> t[p \o r]]

(* The volumes with `sub` added as `name` to a directory: a new entry      *)
(* takes the first free slots, which may lie before other entries.         *)
Added(t, dir, name, sub) ==
    LET at == Append(dir, name)
        nodes == [q \in DOMAIN t \cup {at \o r : r \in DOMAIN sub} |->
                    IF q \in DOMAIN t THEN t[q] ELSE sub[SubSeq(q, Len(at) + 1, Len(q))]]
    IN  {[nodes EXCEPT ![dir].items = InsertAt(@, i, name)] :
            i \in 1 .. Len(t[dir].items) + 1}

Without(items, name) == RemoveAt(items, CHOOSE i \in DOMAIN items : items[i] = name)

Removed(t, p) ==
    [q \in DOMAIN t \ Below(t, p) |->
        IF q = Front(p) THEN [t[q] EXCEPT !.items = Without(@, Last(p))] ELSE t[q]]

(* What a change of the card can come to: `done` are the volumes it may    *)
(* leave when it succeeds.                                                 *)
Attempt(allowed, done) ==
    {[ok |-> TRUE, tree |-> t]  : t \in IF allowed THEN done ELSE {}} \cup
    {[ok |-> FALSE, tree |-> t] : t \in (IF allowed /\ ~CardFails THEN {} ELSE {tree})
                                        \cup (IF allowed /\ CardFails THEN done ELSE {})}

Reads == IF CardFails THEN BOOLEAN ELSE {TRUE}

(* volume.create_file, volume.create_dir: the caller found no such name.   *)
Create(dir, name, kind) ==
    Attempt(Cardinality(DOMAIN tree) < MaxNodes,
            Added(tree, dir, name, Alone(kind)))

(* volume.rename: refuses to put a directory into itself.                  *)
Rename(from, dir, name) ==
    Attempt(~IsPrefix(from, dir),
            Added(Removed(tree, from), dir, name, Subtree(tree, from)))

(* MUTANT: a directory goes with all it holds. *)
WrongDelete(p) ==
    Attempt(Kind(tree, p) # "broken", {Removed(tree, p)})

(* volume.delete, and repair_uninitialized_dir when it fails: a broken     *)
(* directory is emptied, then deleted.                                     *)
Delete(p) ==
    IF Kind(tree, p) # "broken"
    THEN Attempt(tree[p].items = <<>>, {Removed(tree, p)})
    ELSE LET repaired == [tree EXCEPT ![p] = Node("dir")]
         IN  Attempt(TRUE, {Removed(tree, p)}) \cup
                IF CardFails THEN {[ok |-> FALSE, tree |-> repaired]} ELSE {}

-----------------------------------------------------------------------------
(* The list on the screen.                                                 *)

Item(t, d, name) == [name |-> name, directory |-> IsDir(t, Append(d, name))]

(* The entries of a directory from position p on.                          *)
Listed(t, d, p) ==
    LET items == t[d].items
        from  == SubSeq(items, p + 1, Len(items))
    IN  [i \in 1 .. Len(from) |-> Item(t, d, from[i])]

FirstPage(list) == SubSeq(list, 1, IF Len(list) < PageLen THEN Len(list) ELSE PageLen)

(* A directory that cannot be read shows as empty, and the status says so  *)
(* instead of what it was to say.                                          *)
ReloadAt(t, d, p, s, said) ==
    \E ok \in Reads :
        LET read == ok /\ Kind(t, d) = "dir"
            list == IF read THEN Listed(t, d, p) ELSE <<>>
            last == Len(FirstPage(list)) - 1
        IN  /\ cwd' = d /\ page' = p
            /\ entries' = FirstPage(list)
            /\ more' = (Len(list) > PageLen)
            /\ selected' = IF s <= last THEN s ELSE IF last < 0 THEN 0 ELSE last
            /\ report' = IF read THEN said ELSE "else"
            /\ lagging' = ~read

(* MUTANT: the list is not read again. *)
WrongReload(said) ==
    report' = said /\ UNCHANGED <<listing, lagging>>

Reload(said) == ReloadAt(tree', cwd, page, selected, said)

SelectedItem == {entries[i] : i \in {selected + 1} \cap DOMAIN entries}

(* Nothing is read from the card; it may have changed all the same when    *)
(* the operation failed.                                                   *)
KeepList ==
    /\ UNCHANGED listing
    /\ lagging' = (lagging \/ tree' # tree)

Clear ==
    /\ open' = FALSE /\ cwd' = <<>> /\ page' = 0 /\ selected' = 0
    /\ entries' = <<>> /\ more' = FALSE /\ clipboard' = {}
    /\ confirm' = {} /\ report' = "else" /\ lagging' = TRUE /\ stray' = FALSE

Init ==
    /\ tree \in Trees
    /\ open = FALSE /\ view = "menu"
    /\ cwd = <<>> /\ page = 0 /\ selected = 0 /\ entries = <<>> /\ more = FALSE
    /\ clipboard = {} /\ confirm = {} /\ report = "else"
    /\ job = {} /\ task = {} /\ edits = 0 /\ lagging = TRUE /\ stray = FALSE

-----------------------------------------------------------------------------
(* Opening and leaving the screen (main.rs).                               *)

Start ==
    /\ ~open /\ view = "menu"
    /\ open' = TRUE /\ view' = "browse"
    /\ ReloadAt(tree, <<>>, 0, 0, "else")
    /\ UNCHANGED <<tree, clipboard, confirm, work, stray, edits>>

(* The manager is dropped in the pass in which its screen was left, unless *)
(* a later key of that pass opened the screen again.                       *)
Drop ==
    /\ open /\ view = "menu"
    /\ Clear
    /\ UNCHANGED <<tree, view, work, edits>>

Return ==
    /\ open /\ view = "menu"
    /\ view' = "browse"
    /\ UNCHANGED <<tree, open, listing, clipboard, confirm, report, work, history>>

-----------------------------------------------------------------------------
(* Keys.                                                                   *)

(* MUTANT: keys act while a copy is running. *)
WrongAt(v) ==
    open /\ view = v

At(v) == open /\ view = v /\ job = {}

Move ==
    /\ At("browse")
    /\ selected' \in {selected - 1, selected + 1} \cap 0 .. Len(entries) - 1
    /\ UNCHANGED <<tree, open, view, cwd, page, entries, more, clipboard, confirm, report,
                   work, lagging, stray, edits>>

Turn ==
    /\ At("browse")
    /\ \/ page > 0 /\ ReloadAt(tree, cwd, page - PageLen, 0, report)
       \/ more /\ ReloadAt(tree, cwd, page + PageLen, 0, report)
    /\ UNCHANGED <<tree, open, view, clipboard, confirm, work, stray, edits>>

GoTo(d) == ReloadAt(tree, d, 0, 0, "else")

Enter ==
    /\ At("browse")
    /\ \E item \in SelectedItem :
        IF item.directory THEN GoTo(Append(cwd, item.name))
        ELSE report' = "else" /\ UNCHANGED <<listing, lagging>>
    /\ UNCHANGED <<tree, open, view, clipboard, confirm, work, stray, edits>>

Back ==
    /\ At("browse")
    /\ IF cwd # <<>> THEN GoTo(Front(cwd)) /\ UNCHANGED view
       ELSE view' = "menu" /\ UNCHANGED <<listing, report, lagging>>
    /\ UNCHANGED <<tree, open, clipboard, confirm, work, stray, edits>>

Actions ==
    /\ At("browse")
    /\ view' = "actions"
    /\ UNCHANGED <<tree, open, listing, clipboard, confirm, report, work, history>>

Naming == {"rename", "file", "dir"}

(* Back leaves every dialog.                                               *)
Cancel ==
    /\ \E v \in {"actions", "delete"} \cup Naming : At(v)
    /\ view' = "browse" /\ confirm' = {}
    /\ UNCHANGED <<tree, open, listing, clipboard, report, work, history>>

Mark(moving) ==
    /\ At("actions")
    /\ view' = "browse" /\ report' = "else"
    /\ \/ \E item \in SelectedItem :
            /\ clipboard' = {[parent |-> cwd, name |-> item.name,
                              directory |-> item.directory, moving |-> moving]}
            /\ stray' = lagging
       \/ SelectedItem = {} /\ UNCHANGED <<clipboard, stray>>
    /\ UNCHANGED <<tree, open, listing, confirm, work, lagging, edits>>

NameInput(action) ==
    /\ At("actions")
    /\ IF action = "rename" /\ SelectedItem = {}
       THEN view' = "browse" /\ report' = "else"
       ELSE view' = action /\ UNCHANGED report
    /\ UNCHANGED <<tree, open, listing, clipboard, confirm, work, lagging, stray, edits>>

(* By the Delete key, or chosen in the action list.                        *)
DeletePrompt ==
    /\ At("browse") \/ At("actions")
    /\ confirm' = {item.name : item \in SelectedItem}
    /\ view' = IF SelectedItem = {} THEN "browse" ELSE "delete"
    /\ UNCHANGED <<tree, open, listing, clipboard, report, work, history>>

(* The clipboard names this entry of cwd.                                  *)
InClipboard(name) == \E c \in clipboard : c.parent = cwd /\ c.name = name

(* MUTANT: the clipboard is not looked at. *)
WrongForget(name) ==
    UNCHANGED clipboard

Forget(name) == clipboard' = IF InClipboard(name) THEN {} ELSE clipboard

(* Something in the way of the clipboard's entry was renamed, or an        *)
(* operation changed the card although it failed.                          *)
Strays(ok, name) ==
    stray' = (\/ stray
              \/ ~ok /\ tree' # tree
              \/ \E c \in clipboard : IsPrefix(Append(cwd, name), c.parent))

(* Enter in the name dialog.  Whatever fails, the dialog stays.            *)
SubmitNew(name) ==
    /\ view # "rename"
    /\ \E r \in Create(cwd, name, view) :
        /\ tree' = r.tree
        /\ IF r.ok THEN Reload("else") /\ view' = "browse"
           ELSE KeepList /\ report' = "else" /\ UNCHANGED view
    /\ UNCHANGED <<clipboard, stray>>

SubmitRename(name) ==
    /\ view = "rename"
    /\ \E item \in SelectedItem :
        /\ Append(cwd, item.name) \in DOMAIN tree
        /\ \E r \in Rename(Append(cwd, item.name), cwd, name) :
            /\ tree' = r.tree /\ Strays(r.ok, item.name)
            /\ IF r.ok THEN Forget(item.name) /\ Reload("else") /\ view' = "browse"
               ELSE KeepList /\ report' = "else" /\ UNCHANGED <<view, clipboard>>

SubmitName ==
    /\ \E v \in Naming : At(v)
    /\ edits < MaxEdits /\ edits' = edits + 1
    /\ \/ /\ report' = "else"     \* the name is invalid or exists, or it failed
          /\ UNCHANGED <<tree, view, listing, clipboard, lagging, stray>>
       \/ /\ Kind(tree, cwd) = "dir"
          /\ \E name \in Typed :
                /\ Append(cwd, name) \notin DOMAIN tree
                /\ SubmitNew(name) \/ SubmitRename(name)
    /\ UNCHANGED <<open, confirm, work>>

(* Enter in the delete dialog.                                             *)
ConfirmDelete ==
    /\ At("delete")
    /\ edits < MaxEdits /\ edits' = edits + 1
    /\ view' = "browse" /\ confirm' = {}
    /\ \E name \in confirm :
        \/ /\ CardFails \/ Append(cwd, name) \notin DOMAIN tree
           /\ UNCHANGED <<tree, clipboard, stray>>
        \/ /\ Append(cwd, name) \in DOMAIN tree
           /\ \E r \in Delete(Append(cwd, name)) :
                /\ tree' = r.tree
                /\ IF r.ok THEN Forget(name) ELSE UNCHANGED clipboard
                /\ stray' = (stray \/ (~r.ok /\ tree' # tree))
    /\ Reload("else")
    /\ UNCHANGED <<open, work>>

-----------------------------------------------------------------------------
(* Pasting.                                                                *)

Source(c) == Append(c.parent, c.name)

(* MUTANT: a directory may be pasted into itself. *)
WrongAccepts(c) ==
    /\ cwd # c.parent
    /\ Source(c) \in DOMAIN tree /\ IsDir(tree, Source(c)) = c.directory
    /\ Kind(tree, cwd) = "dir" /\ Append(cwd, c.name) \notin DOMAIN tree

Accepts(c) ==
    /\ ~(c.directory /\ IsPrefix(Source(c), cwd))
    /\ cwd # c.parent
    /\ Source(c) \in DOMAIN tree /\ IsDir(tree, Source(c)) = c.directory
    /\ Kind(tree, cwd) = "dir" /\ Append(cwd, c.name) \notin DOMAIN tree

FileJob(source, target, name) ==
    [source |-> source, target |-> target, name |-> name, at |-> 0, started |-> FALSE]

Begin(c, dirs, file) ==
    /\ job' = {[dirs |-> dirs, file |-> file]}
    /\ task' = {[from |-> Source(c), to |-> Append(cwd, c.name)]}

PasteMove(c) ==
    \E r \in Rename(Source(c), cwd, c.name) :
        /\ tree' = r.tree
        /\ IF r.ok THEN clipboard' = {} /\ Reload("else") /\ UNCHANGED stray
           ELSE /\ KeepList /\ report' = "else" /\ UNCHANGED clipboard
                /\ stray' = (stray \/ tree' # tree)
        /\ UNCHANGED work

PasteDirectory(c) ==
    \E r \in Create(cwd, c.name, "dir") :
        /\ tree' = r.tree
        /\ IF r.ok
           THEN Begin(c, <<[source |-> Source(c), target |-> Append(cwd, c.name),
                            next |-> 0]>>, {})
           ELSE UNCHANGED work
        /\ KeepList /\ report' = "else" /\ UNCHANGED <<clipboard, stray>>

PasteFile(c) ==
    /\ report' = "else"
    /\ Begin(c, <<>>, {FileJob(c.parent, cwd, c.name)})
    /\ UNCHANGED <<tree, listing, lagging, clipboard, stray>>

Paste ==
    /\ At("actions")
    /\ edits < MaxEdits /\ edits' = edits + 1
    /\ view' = "browse"
    /\ \/ /\ CardFails \/ \A c \in clipboard : ~Accepts(c)
          /\ report' = "else"
          /\ UNCHANGED <<tree, listing, lagging, clipboard, stray, work>>
       \/ \E c \in clipboard :
            /\ Accepts(c)
            /\ \/ c.moving /\ PasteMove(c)
               \/ ~c.moving /\ c.directory /\ PasteDirectory(c)
               \/ ~c.moving /\ ~c.directory /\ PasteFile(c)
    /\ UNCHANGED <<open, confirm>>

-----------------------------------------------------------------------------
(* Copying: CopyJob::step, once per pass.                                  *)

Finish(outcome) ==
    /\ job' = {} /\ task' = {}
    /\ Reload(outcome)

Fail == Finish("partial")

Continue(j) ==
    /\ job' = {j}
    /\ UNCHANGED <<report, task>> /\ KeepList

(* The target of a file job exists just when the job created it.           *)
Copyable(f) ==
    LET to == Append(f.target, f.name)
    IN  /\ Kind(tree, Append(f.source, f.name)) = "file"
        /\ Kind(tree, f.target) = "dir"
        /\ f.started = (to \in DOMAIN tree)
        /\ f.started \/ Cardinality(DOMAIN tree) < MaxNodes

(* MUTANT: every chunk is read from the start of the file. *)
WrongUnits(f) ==
    LET data == tree[Append(f.source, f.name)].data
    IN  SubSeq(data, 1, IF f.at >= Len(data) THEN 0 ELSE Chunk)

Units(f) ==
    LET data == tree[Append(f.source, f.name)].data
    IN  SubSeq(data, f.at + 1, IF f.at + Chunk < Len(data) THEN f.at + Chunk ELSE Len(data))

(* A file is created with its first chunk, appended to with the others.    *)
Written(t, p, units) == [t EXCEPT ![p].data = @ \o units]

Targets(f) ==
    IF f.started THEN {tree} ELSE Added(tree, f.target, f.name, Alone("file"))

(* MUTANT: an empty chunk does not end the file. *)
WrongAfterChunk(j, f, units) ==
    [j EXCEPT !.file = {[f EXCEPT !.at = @ + Len(units), !.started = TRUE]}]

AfterChunk(j, f, units) ==
    IF units = <<>> THEN [j EXCEPT !.file = {}]
    ELSE [j EXCEPT !.file = {[f EXCEPT !.at = @ + Len(units), !.started = TRUE]}]

CopyFile(j) ==
    \E f \in j.file :
        LET to == Append(f.target, f.name)
        IN  IF Copyable(f)
            THEN /\ tree' \in {Written(t, to, Units(f)) : t \in Targets(f)}
                 /\ Continue(AfterChunk(j, f, Units(f)))
            ELSE UNCHANGED tree /\ Fail

(* The items of a directory are counted off one by one.                    *)
Passed(j) == [j EXCEPT !.dirs[Len(j.dirs)].next = @ + 1]

Enterable(j, name) ==
    /\ Len(j.dirs) < MaxDepth
    /\ Append(Last(j.dirs).target, name) \notin DOMAIN tree
    /\ Cardinality(DOMAIN tree) < MaxNodes

EnterDirectory(j, name) ==
    LET frame == Last(j.dirs)
        new == [source |-> Append(frame.source, name),
                target |-> Append(frame.target, name), next |-> 0]
    IN  IF Enterable(j, name)
        THEN /\ tree' \in Added(tree, frame.target, name, Alone("dir"))
             /\ Continue([Passed(j) EXCEPT !.dirs = Append(@, new)])
        ELSE UNCHANGED tree /\ Fail

(* item_at: nothing once all items have been counted.                      *)
ItemAt(frame) ==
    {tree[frame.source].items[i] : i \in {frame.next + 1} \cap DOMAIN tree[frame.source].items}

CopyItem(j) ==
    LET frame == Last(j.dirs)
    IN  /\ j.file = {} /\ j.dirs # <<>>
        /\ IF Kind(tree, frame.source) # "dir" THEN UNCHANGED tree /\ Fail
           ELSE \/ /\ ItemAt(frame) = {}
                   /\ UNCHANGED tree /\ Continue([j EXCEPT !.dirs = Front(@)])
                \/ \E name \in ItemAt(frame) :
                    IF IsDir(tree, Append(frame.source, name)) THEN EnterDirectory(j, name)
                    ELSE /\ UNCHANGED tree
                         /\ Continue([Passed(j) EXCEPT
                                !.file = {FileJob(frame.source, frame.target, name)}])

CopyDone(j) ==
    /\ j.file = {} /\ j.dirs = <<>>
    /\ UNCHANGED tree
    /\ Finish("copied")

Poll ==
    /\ open
    /\ \E j \in job : CopyFile(j) \/ CopyItem(j) \/ CopyDone(j)
    /\ UNCHANGED <<open, view, clipboard, confirm, stray, edits>>

(* What a step that fails may leave behind: a new file with a part of its  *)
(* chunk, or an empty directory.                                           *)
LeavesBehind(j) ==
    \/ UNCHANGED tree
    \/ \E f \in j.file :
        /\ Copyable(f)
        /\ \E t \in Targets(f), n \in 0 .. Len(Units(f)) :
                tree' = Written(t, Append(f.target, f.name), SubSeq(Units(f), 1, n))
    \/ /\ j.file = {}
       /\ \E name \in ItemAt(Last(j.dirs)) :
            /\ Enterable(j, name)
            /\ IsDir(tree, Append(Last(j.dirs).source, name))
            /\ tree' \in Added(tree, Last(j.dirs).target, name, Alone("dir"))

(* The step of a pass in which the card fails.                             *)
PollFails ==
    /\ CardFails /\ open
    /\ \E j \in job : (j.file # {} \/ j.dirs # <<>>) /\ LeavesBehind(j)
    /\ Fail
    /\ UNCHANGED <<open, view, clipboard, confirm, stray, edits>>

-----------------------------------------------------------------------------

Next ==
    \/ Start \/ Drop \/ Return
    \/ Move \/ Turn \/ Enter \/ Back \/ Actions \/ Cancel
    \/ \E moving \in BOOLEAN : Mark(moving)
    \/ \E action \in Naming : NameInput(action)
    \/ DeletePrompt \/ SubmitName \/ ConfirmDelete \/ Paste
    \/ Poll \/ PollFails

Spec == Init /\ [][Next]_vars

(* Every pass polls the manager; the card need not fail.                   *)
FairSpec == Spec /\ WF_vars(Poll)

-----------------------------------------------------------------------------
(* Properties.                                                             *)

Paths == DOMAIN tree

(* The volume is a tree, the manager stands in a directory of it, and the  *)
(* selection, the dialogs and the job fit together (the fields of          *)
(* FileManager, which every key and every step of a copy changes).         *)
TypeOK ==
    /\ IsVolume(tree)
    /\ lagging \/ IsDir(tree, cwd)
    /\ selected \in Nat /\ (entries # <<>> => selected < Len(entries))
    /\ Len(entries) <= PageLen /\ page % PageLen = 0
    /\ (view = "delete") = (confirm # {})
    /\ job # {} => open /\ view = "browse" /\ task # {}

(* What the screen lists is what the directory holds, unless it could not  *)
(* be read or an operation that reported a failure changed the card: every *)
(* operation that changes the directory reads it again (reload), and a     *)
(* running copy does when it ends.                                         *)
ListIsFresh ==
    open /\ ~lagging /\ job = {} =>
        /\ entries = FirstPage(Listed(tree, cwd, page))
        /\ more = (Len(tree[cwd].items) > page + PageLen)

(* The clipboard names an existing entry, of the kind it was marked as,    *)
(* unless a directory above it was renamed or an operation failed: whoever *)
(* renames, moves or deletes the entry clears the clipboard.               *)
ClipboardKeepsUp ==
    ~stray => \A c \in clipboard :
                    Source(c) \in Paths /\ IsDir(tree, Source(c)) = c.directory

(* The directory the copy adds its target to lists one more item; nothing  *)
(* else outside of the target changes, and the source does not either      *)
(* ("errors leave the original intact", "Never overwrite a destination     *)
(* entry": CopyJob::step).                                                 *)
KeepsAllBut(to) ==
    \A p \in Paths : ~IsPrefix(to, p) =>
        /\ p \in DOMAIN tree'
        /\ IF p = Front(to) THEN Range(tree[p].items) \subseteq Range(tree'[p].items)
           ELSE tree'[p] = tree[p]

CopyOnlyAdds ==
    [][\A t \in task \cup task' :
            /\ KeepsAllBut(t.to)
            /\ Subtree(tree', t.from) = Subtree(tree, t.from)]_vars

(* What two subtrees hold, the order in directories aside.                 *)
Holds(t, p) == [q \in DOMAIN Subtree(t, p) |-> <<Kind(t, p \o q), t[p \o q].data>>]

(* A copy that says it is complete has copied every file and directory     *)
(* whole, and one that is not says so (poll), unless the list cannot be    *)
(* read either.                                                            *)
CopiedIsWhole ==
    [][\A t \in task : task' = {} =>
            /\ lagging' \/ report' \in {"copied", "partial"}
            /\ report' = "copied" => Holds(tree', t.to) = Holds(tree', t.from)]_vars

(* Nothing disappears but the entry the delete dialog showed, a file or an *)
(* empty directory; whatever else leaves its path is found at another, as  *)
(* it was (MOVE and RENAME).                                               *)
LossIsConfirmed ==
    [][\A p \in Paths \ DOMAIN tree' :
            \/ /\ \E name \in confirm : p = Append(cwd, name)
               /\ tree[p].items = <<>>
            \/ \E q \in Paths \ DOMAIN tree', r \in DOMAIN tree' \ Paths :
                    IsPrefix(q, p) /\ Subtree(tree', r) = Subtree(tree, q)]_vars

(* A copy ends: every step does a bounded piece of what is left of it      *)
(* (CopyJob::step), and each pass takes one (poll).                        *)
CopyEnds == (job # {}) ~> (job = {})

=============================================================================
