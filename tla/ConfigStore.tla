---------------------------- MODULE ConfigStore ----------------------------
(***************************************************************************)
(* The configuration: what is read from logid.cfg at the start, changed in *)
(* memory while logid runs and written back by the Save call of the IPC    *)
(* interface (Configuration.cpp, config/types.h, config/group.h and        *)
(* config/schema.h, with Device::_getConfig, Device.cpp 397-428).          *)
(*                                                                         *)
(* A libconfig setting is <<type, value>>.  A get is an operator that gives *)
(* Fail where the code throws a SettingException; optional, variant, list  *)
(* and map take the get of what they hold, as the templates do.  Of the    *)
(* schema there is one example of each shape: a variant of an int and a    *)
(* list, a variant of a bool and a group, a variant of signed groups, a    *)
(* group with a field it cannot do without, and the maps of profiles and   *)
(* devices.                                                                *)
(***************************************************************************)
EXTENDS Integers, SequencesExt

CONSTANTS
    Names,          \* device names
    None, Fail,     \* std::nullopt; a SettingException
    MaxChanges, MaxKills

VARIABLES
    file,           \* the settings in logid.cfg, or None
    memory,         \* Config::devices while logid runs, else None
    ignored,        \* whether logid.cfg has an "ignore" list
    writing,        \* writeFile() is under way
    acked,          \* the devices of the last Save that returned, or that were read
    cut,            \* logid was killed inside writeFile()
    spare           \* what is left of the bounds

vars == <<file, memory, ignored, writing, acked, cut, spare>>

-----------------------------------------------------------------------------
\* Reading: config_io<...>::get

IsGroup(s) == s[1] = "group"
Exists(s, name) == IsGroup(s) /\ name \in DOMAIN s[2]

Primitive(type, s) == IF s[1] = type THEN s ELSE Fail

\* In these, v is what get gives for the setting of that name, if it is there.
Optional(s, name, v) == IF ~Exists(s, name) \/ v = Fail THEN None ELSE v
Required(s, name, v) == IF Exists(s, name) THEN v ELSE Fail

FirstOf(a, b) == IF a # Fail THEN a ELSE b          \* try_each

\* getLength() of a scalar is 0.  In List and Map, got is what get gives for each.
Elements(s) == IF s[1] = "list" THEN s[2] ELSE <<>>
List(got) == SelectSeq(got, LAMBDA v : v # Fail)

\* A map takes the first element of a key and drops those that do not load.
Map(s, got) ==
    LET named == {i \in DOMAIN got : Exists(Elements(s)[i], "name") /\ got[i] # Fail}
        key(i) == Elements(s)[i][2].name[2]
    IN  [k \in {key(i) : i \in named} |-> got[Min({i \in named : key(i) = k})]]

GetInt(s) == Primitive("int", s)
GetBool(s) == Primitive("bool", s)
GetString(s) == Primitive("string", s)
GetDPI(s) ==
    LET ints == [i \in DOMAIN Elements(s) |-> GetInt(Elements(s)[i])]
    IN  FirstOf(GetInt(s), <<"ints", List(ints)>>)

\* signed_group::_load: the signature must be the group's own.
Signed(mode, s) ==
    IF Exists(s, "mode") /\ s[2].mode = <<"string", mode>>
    THEN <<mode, Optional(s, "threshold", GetInt(s[2].threshold))>> ELSE Fail
GetGesture(s) == FirstOf(Signed("axis", s), Signed("onrelease", s))

GetHiresGroup(s) == <<"HiresScroll", [hires |-> Optional(s, "hires", GetBool(s[2].hires)),
                                      up |-> Optional(s, "up", GetGesture(s[2].up))]>>
GetHiresScroll(s) == FirstOf(GetBool(s), GetHiresGroup(s))

\* config::ConnectionCommand has a command or does not load.
GetCommand(s) == Required(s, "command", GetString(s[2].command))

GetProfile(s) ==
    <<"Profile", [dpi |-> Optional(s, "dpi", GetDPI(s[2].dpi)),
                  hiresscroll |->
                      Optional(s, "hiresscroll", GetHiresScroll(s[2].hiresscroll)),
                  on_connect |-> Optional(s, "on_connect", GetCommand(s[2].on_connect))]>>

GetProfiles(s) == Map(s, [i \in DOMAIN Elements(s) |-> GetProfile(Elements(s)[i])])

GetDeviceGroup(s) ==
    LET default == Required(s, "default_profile", GetString(s[2].default_profile))
        profiles == Required(s, "profiles", GetProfiles(s[2].profiles))
    IN  IF default = Fail \/ profiles = Fail THEN Fail
        ELSE <<"Device", [default_profile |-> default, profiles |-> profiles,
                          on_connect |-> Optional(s, "on_connect", GetCommand(s[2].on_connect))]>>

ProfileFirst(s) == GetProfile(s)     \* a mutant: the variant's types in the other order
GetDevice(s) == FirstOf(GetDeviceGroup(s), GetProfile(s))

\* The devices of a file; None stands for an empty one.
Read(f) ==
    LET list == IF f = None THEN <<"list", <<>>>> ELSE f[2].devices
    IN  Map(list, [i \in DOMAIN Elements(list) |-> GetDevice(Elements(list)[i])])

-----------------------------------------------------------------------------
\* Writing: config_io<...>::set.  An optional that is not set writes nothing.

Group(fields) ==
    <<"group", Restrict(fields, {n \in DOMAIN fields : fields[n] # None})>>

SetDPI(v) == IF v = None \/ v[1] = "int" THEN v ELSE <<"list", v[2]>>
SetGesture(v) ==
    IF v = None THEN None ELSE Group([mode |-> <<"string", v[1]>>, threshold |-> v[2]])
SetHiresScroll(v) ==
    IF v = None \/ v[1] = "bool" THEN v
    ELSE Group([hires |-> v[2].hires, up |-> SetGesture(v[2].up)])
SetCommand(v) == IF v = None THEN None ELSE Group([command |-> v])

\* The old elements are removed first; an element is its value, then its key.
SetMap(written) ==
    LET names == SetToSeq(DOMAIN written)
    IN  <<"list", [i \in DOMAIN names |-> written[names[i]]]>>

ProfileFields(v) == [dpi |-> SetDPI(v[2].dpi),
                     hiresscroll |-> SetHiresScroll(v[2].hiresscroll),
                     on_connect |-> SetCommand(v[2].on_connect)]
SetProfile(v, name) == Group(ProfileFields(v) @@ [name |-> <<"string", name>>])
SetDevice(v, name) ==
    IF v[1] = "Profile" THEN SetProfile(v, name)
    ELSE Group([default_profile |-> v[2].default_profile,
                profiles |-> SetMap([p \in DOMAIN v[2].profiles |->
                                        SetProfile(v[2].profiles[p], p)]),
                on_connect |-> SetCommand(v[2].on_connect), name |-> <<"string", name>>])

Tree(devices) ==
    LET written == [d \in DOMAIN devices |-> SetDevice(devices[d], d)]
    IN  <<"group", [devices |-> SetMap(written)]>>

-----------------------------------------------------------------------------
\* What a user may have written: flat profiles, devices, and mistakes in both.
Commands == {None, <<"string", "hook">>}
Written(name) ==
    {Group([name |-> <<"string", name>>, dpi |-> d, hiresscroll |-> h,
            on_connect |-> SetCommand(c)]) :
        d \in {None, <<"int", 800>>, <<"list", <<<<"int", 800>>, <<"bool", TRUE>>>>>>},
        h \in {None, <<"bool", TRUE>>, Group([up |-> Group([mode |-> <<"string", "axis">>])]),
               Group([hires |-> <<"int", 1>>, up |-> Group([mode |-> <<"string", "swipe">>])])},
        c \in Commands}
    \cup {Group([name |-> <<"string", name>>, default_profile |-> d,
                 profiles |-> <<"list", <<Group([name |-> <<"string", "work">>,
                                                 dpi |-> <<"int", 400>>])>>>>]) :
             d \in {None, <<"string", "work">>}}

Init ==
    /\ file \in {None} \cup {<<"group", [devices |-> <<"list", <<w>>>>]>> :
                               w \in UNION {Written(n) : n \in Names}}
    /\ ignored \in BOOLEAN
    /\ memory = None /\ writing = FALSE /\ acked = Read(file) /\ cut = FALSE
    /\ spare = [changes |-> MaxChanges, kills |-> MaxKills]

Use(what) == spare[what] > 0 /\ spare' = [spare EXCEPT ![what] = @ - 1]

\* A file that was cut short does not parse: logid does not start.
Start ==
    /\ memory = None /\ ~cut
    /\ memory' = Read(file)
    /\ UNCHANGED <<file, ignored, writing, acked, cut, spare>>

Blank == <<"Profile", [dpi |-> None, hiresscroll |-> None, on_connect |-> None]>>

\* Device::_getConfig: a device that is not there is added, a flat profile moves
\* into a device, its hook with it, and a device has a profile at least.
Migrated(v) ==
    IF v[1] = "Profile"
    THEN <<"Device", [default_profile |-> <<"string", "default">>,
                      profiles |-> [default |-> <<"Profile", [v[2] EXCEPT !.on_connect = None]>>],
                      on_connect |-> v[2].on_connect]>>
    ELSE IF DOMAIN v[2].profiles = {}
    THEN <<"Device", [v[2] EXCEPT !.profiles = [default |-> Blank],
                                  !.default_profile = <<"string", "default">>]>>
    ELSE v

GetConfig(name) ==
    /\ memory # None /\ ~writing
    /\ memory' = (name :> Migrated((memory @@ (name :> Blank))[name])) @@ memory
    /\ memory' # memory
    /\ UNCHANGED <<file, ignored, writing, acked, cut, spare>>

\* The IPC setters of a device that is there: a value, none, a new profile.
Changes(v) ==
    LET p == v[2].profiles[v[2].default_profile[2]]
        with(field, value) == [v EXCEPT ![2].profiles[v[2].default_profile[2]] =
                                   <<"Profile", [p[2] EXCEPT ![field] = value]>>]
    IN  {with("dpi", <<"int", 1600>>), with("dpi", <<"ints", <<<<"int", 0>>, <<"int", 900>>>>>>),
         with("hiresscroll", None),
         with("hiresscroll", <<"HiresScroll", [hires |-> <<"bool", FALSE>>,
                                               up |-> <<"onrelease", None>>]>>),
         [v EXCEPT ![2].profiles = @ @@ [extra |-> Blank]]}

Change(name) ==
    /\ memory # None /\ ~writing /\ name \in DOMAIN memory /\ memory[name][1] = "Device"
    /\ memory[name][2].default_profile[2] \in DOMAIN memory[name][2].profiles
    /\ Use("changes")
    /\ \E v \in Changes(memory[name]) : memory' = [memory EXCEPT ![name] = v]
    /\ UNCHANGED <<file, ignored, writing, acked, cut>>

\* Configuration::save.  A set of integers is written as groups, which throws
\* (config/types.h:327): with an "ignore" list nothing is ever saved.
Save ==
    /\ memory # None /\ ~writing /\ ~ignored
    /\ writing' = TRUE
    /\ UNCHANGED <<file, memory, ignored, acked, cut, spare>>

SaveReturns ==
    /\ writing /\ writing' = FALSE
    /\ file' = Tree(memory) /\ acked' = memory
    /\ UNCHANGED <<memory, ignored, cut, spare>>

Kill ==
    /\ memory # None /\ Use("kills")
    /\ memory' = None /\ writing' = FALSE /\ cut' = writing
    /\ UNCHANGED <<file, ignored, acked>>

Next ==
    \/ Start \/ Save \/ SaveReturns \/ Kill
    \/ \E n \in Names : GetConfig(n) \/ Change(n)

Spec == Init /\ [][Next]_vars

-----------------------------------------------------------------------------
\* What was saved is what the next start reads: every value, profile, gesture and
\* hook, whatever mixture of forms the file had before, unless logid is killed
\* inside writeFile(), which does not replace the file atomically.
SavedIsRead == ~cut /\ ~writing => Read(file) = acked
=============================================================================
