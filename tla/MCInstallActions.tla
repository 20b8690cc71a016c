-------------------------- MODULE MCInstallActions --------------------------
(***************************************************************************)
(* Two dynamic partitions with verity data, the first from a delta and     *)
(* with a postinstall program, and a static one whose program is optional; *)
(* an empty partition has no device path.                                  *)
(***************************************************************************)
EXTENDS InstallActions

MCPartitions ==
    << [dynamic |-> TRUE, verity |-> TRUE, delta |-> TRUE, size |-> 2, dataEnd |-> 1,
        path |-> TRUE, runPostinstall |-> TRUE, optional |-> FALSE],
       [dynamic |-> TRUE, verity |-> TRUE, delta |-> FALSE, size |-> 2, dataEnd |-> 1,
        path |-> TRUE, runPostinstall |-> FALSE, optional |-> FALSE],
       [dynamic |-> FALSE, verity |-> FALSE, delta |-> FALSE, size |-> 0, dataEnd |-> 0,
        path |-> FALSE, runPostinstall |-> TRUE, optional |-> TRUE] >>

Plan(verity, compression, powerwash_, switch, url) ==
    [writeVerity |-> verity, compression |-> compression, powerwash |-> powerwash_,
     switchSlot |-> switch, runPostInstall |-> compression, hasUrl |-> url,
     untouched |-> compression]

MCPlans == { Plan(TRUE, TRUE, TRUE, TRUE, TRUE), Plan(FALSE, TRUE, FALSE, TRUE, TRUE),
             Plan(TRUE, FALSE, TRUE, FALSE, TRUE), Plan(TRUE, FALSE, FALSE, TRUE, FALSE) }

MCImages == { [target |-> {1, 2, 3}, source |-> {1, 2, 3}], [target |-> {2, 3}, source |-> {1, 2, 3}],
              [target |-> {2, 3}, source |-> {}], [target |-> {1, 3}, source |-> {}] }

MCActions == {Cleanup, Download, Verifier, Postinstall}

MCErrorCodes ==
    {"kSuccess", "kError", "kDeviceCorrupted", "kDownloadTransferError",
     "kFilesystemVerifierError", "kVerityCalculationError", "kNewRootfsVerificationError",
     "kDownloadStateInitializationError", "kPostInstallMountError", "kPostinstallPowerwashError",
     "kPostinstallRunnerError", "kPostinstallBootedFromFirmwareB",
     "kPostinstallFirmwareRONotUpdatable", "kUpdatedButNotActive"}
=============================================================================
