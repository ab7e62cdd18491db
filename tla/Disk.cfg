SPECIFICATION Spec
INVARIANTS TypeOK CrashLeavesStoreWhole FlagsAgree CallsAreBilled ToolsKeepPromises AnswerIsRight
PROPERTIES StoresKeepTheRest JobsFollowLifecycle SearchAnswers
CHECK_DEADLOCK FALSE
