SPECIFICATION DoctorSpec
CONSTANTS
    MaxDefects = 2
    MaxUpsets = 2
INVARIANT ReportIsTrue
