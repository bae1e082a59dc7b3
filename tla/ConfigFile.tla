----------------------------- MODULE ConfigFile -----------------------------
(***************************************************************************)
(* Saving and loading a configuration with a temporary file and a backup:  *)
(* mgw_data_save_json_safe, os_quick_write_utf8_file_safe and              *)
(* os_safe_replace, mgw_data_create_from_json_file_safe.  The process can  *)
(* die between any two file operations.  A failure of fflush or fclose,    *)
(* which nobody checks, is not modelled.  Versions are numbers; what cannot *)
(* be parsed is Torn.                                                      *)
(***************************************************************************)
EXTENDS Integers

CONSTANT MaxVersion     \* bound: saves

VARIABLES file,         \* path -> what is there
          saver,        \* where mgw_data_save_json_safe is
          version,      \* the version it writes, and the last one begun
          saved         \* the last version saved to the end (a ghost)

fileVars == <<file, saver, version, saved>>

Missing == -1
Torn == 0

mgw_data_save_json_safe ==
    /\ saver = "idle" /\ version < MaxVersion
    /\ version' = version + 1
    /\ saver' = "write"
    /\ file' = [file EXCEPT !["temp"] = Torn]      \* fopen truncates
    /\ UNCHANGED saved

(* fwrite fails, or all is written.                                        *)
os_quick_write_utf8_file ==
    /\ saver = "write"
    /\ \/ saver' = "idle" /\ UNCHANGED file
       \/ saver' = "backup" /\ file' = [file EXCEPT !["temp"] = version]
    /\ UNCHANGED <<version, saved>>

(* The plausible slip: the old file is removed, not kept.                  *)
Backup_Removes ==
    /\ saver = "backup"
    /\ saver' = "rename"
    /\ file' = IF file["main"] = Missing THEN file ELSE [file EXCEPT !["main"] = Missing]
    /\ UNCHANGED <<version, saved>>

(* The two renames of os_safe_replace; the first may fail.                 *)
Backup ==
    /\ saver = "backup"
    /\ \/ /\ saver' = "rename"
          /\ file' = IF file["main"] = Missing THEN file
                     ELSE [file EXCEPT !["backup"] = file["main"], !["main"] = Missing]
       \/ saver' = "idle" /\ file["main"] # Missing /\ UNCHANGED file
    /\ UNCHANGED <<version, saved>>

Rename ==
    /\ saver = "rename"
    /\ saver' = "idle"
    /\ file' = [file EXCEPT !["main"] = file["temp"], !["temp"] = Missing]
    /\ saved' = file["temp"]
    /\ UNCHANGED version

Crash ==
    /\ saver # "idle"
    /\ saver' = "idle"
    /\ UNCHANGED <<file, version, saved>>

(* The backup takes the place of a file that is missing or corrupt.        *)
Load(f) ==
    IF f["main"] > 0 \/ f["backup"] = Missing THEN f
    ELSE [f EXCEPT !["main"] = f["backup"], !["backup"] = Missing]

mgw_data_create_from_json_file_safe ==
    /\ saver = "idle"
    /\ file' = Load(file)
    /\ UNCHANGED <<saver, version, saved>>

ConfigInit ==
    /\ file = [p \in {"main", "temp", "backup"} |-> Missing]
    /\ saver = "idle" /\ version = 0 /\ saved = Missing

ConfigNext ==
    \/ mgw_data_save_json_safe \/ os_quick_write_utf8_file \/ Backup \/ Rename \/ Crash
    \/ mgw_data_create_from_json_file_safe

ConfigSpec == ConfigInit /\ [][ConfigNext]_fileVars
-----------------------------------------------------------------------------
(* Once a configuration was saved, a loader finds the last that was saved  *)
(* to its end: at any point of a later save that fails or dies, after      *)
(* loads and further saves.                                                *)
ConfigSurvives == saved # Missing => Load(file)["main"] = saved
=============================================================================
