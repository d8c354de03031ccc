----------------------------- MODULE MCService ------------------------------
(***************************************************************************)
(* A small instance of Service for TLC: the inputs, configurations and     *)
(* environments that its components are offered.                           *)
(***************************************************************************)
EXTENDS Service, TLC

CONSTANTS m1, m2    \* mails

File(type, mime, magic, ext, size) ==
    [type |-> type, mime |-> mime, magic |-> magic, ext |-> ext, size |-> size]

\* A good file of each kind of type, or one that departs from it in one respect,
\* under each extension: other types and names that are no types, MIME types that
\* are not allowed or unknown, contents that do not fit, sizes past each cap.
GoodFiles ==
    {File("avatar", <<"image", "webp">>, "webp", "other", 5),
     File("aadhar", <<"image", "jpeg">>, "jpeg", "other", 5),
     File("document", <<"document", "pdf">>, "pdf", "other", 5),
     File("video", <<"video", "ftyp">>, "ftyp", "other", 26)}

MCUpFiles ==
    {[f EXCEPT !.ext = ext] :
        ext \in {"none", "webp", "other"},
        f \in GoodFiles
          \cup {[g EXCEPT !.type = t] : g \in GoodFiles, t \in {"image", "remove", "unknown"}}
          \cup {[g EXCEPT !.mime = m] : g \in GoodFiles,
                  m \in {<<"image", "gif">>, <<"document", "none">>, <<"other", "none">>}}
          \cup {[g EXCEPT !.magic = m] : g \in GoodFiles, m \in {"pdf", "short"}}
          \cup {[g EXCEPT !.size = s] : g \in GoodFiles, s \in {6, 26, 501}}}

MCUpSetups ==
    LET good == [local |-> TRUE, encryption |-> TRUE, audit |-> TRUE, cap |-> 600]
    IN  {good, [good EXCEPT !.local = FALSE], [good EXCEPT !.encryption = FALSE],
         [good EXCEPT !.audit = FALSE], [good EXCEPT !.cap = 10]}

DirSetup(provider, enabled, unique) ==
    [provider |-> provider, enabled |-> enabled, unique |-> unique]

MCDirSetups ==
    {DirSetup(p, TRUE, FALSE) : p \in {"s3", "local", "cloudinary", "imagekit"}}
    \cup {DirSetup("imagekit", TRUE, TRUE), DirSetup("local", FALSE, FALSE)}

\* KB: nothing, what is asked for, one more, beyond the headroom, beyond the cap.
MCDirSizes == {0, 8, 9, 80, 30000}

MCDirAsks ==
    [method : {"PUT"}, type : {"image"}, ct : {"jpeg"}, size : {0, 8, 30000}]
    \cup [method : {"POST"}, type : {"image"}, ct : {"jpeg"}, size : {8}]
    \cup [method : {"PUT"}, type : {"other", "unknown"}, ct : {"jpeg"}, size : {8}]

\* With presigned keys, other kinds or subfolders that the listing does not show.
MCClSetups ==
    [provider : {"s3", "local", "cloudinary", "imagekit"}, hidden : {{}}]
    \cup [provider : {"s3", "imagekit"}, hidden : {{2}}]

Input(route, token, role, body, key) ==
    [route |-> route, token |-> token, role |-> role, body |-> body, key |-> key]

MCInputs ==
    {Input("health", "none", "user", "good", "none"),
     Input("me", "valid", "user", "good", "none"),
     Input("me", "expired", "user", "good", "none"),
     Input("list", "valid", "user", "good", "none"),
     Input("list", "valid", "admin", "good", "none"),
     Input("register", "none", "user", "malformed", "none"),
     Input("register", "none", "user", "invalid", "k"),
     Input("register", "none", "user", "good", "k"),
     Input("commit", "valid", "user", "good", "none"),
     Input("commit", "valid", "user", "good", "k")}

\* A good environment, and every environment that departs from it in two settings.
GoodEnv ==
    [provider |-> "s3", required |-> "good", jwt |-> "good", numbers |-> "absent",
     keys |-> "good", url |-> "absent", signing |-> "absent", cap |-> "nowhere",
     presigned |-> "absent"]

Departures ==
    {[f \in {"provider"} |-> p] : p \in ProviderNames \cup {"other"}}
    \cup UNION {{[f \in {g} |-> s] : s \in Settings} :
                  g \in {"required", "jwt", "numbers", "keys", "url", "signing", "presigned"}}
    \cup {[f \in {"cap"} |-> c] : c \in Places}

MCEnvironments == {d @@ e @@ GoodEnv : d \in Departures, e \in Departures}
=============================================================================
